---- MODULE Spec2Model ----
(***************************************************************************)
(* Data binding core of RmlUi: address parsing, the variable reflection    *)
(* layer (scalar / array / struct definitions over host data), the data    *)
(* model, and the view update engine (data-for views, DataViews::Update).  *)
(*                                                                         *)
(* A String is a sequence of one-character strings, so that find, substr   *)
(* and the number conversion are computed as the code computes them.       *)
(***************************************************************************)
EXTENDS Integers, Sequences, FiniteSets, TLC

VARIABLES
    pa_str,      \* ParseAddress: the argument address_str
    pa_result,   \* ParseAddress: the returned Address
    pa_pc,       \* "call" before the call, "returned" after it
    data,        \* the host data the model is bound to (SmartData data)
    variables,   \* Model::variables, root name -> Variable
    op,          \* the last call made on the Model, its arguments and result
    status,      \* "running", or how undefined behaviour ended the run
    variable_address, \* DataViewFor::variable_address
    for_alive,   \* whether the element the DataViewFor is attached to exists
    elements,    \* DataViewFor::elements, the instantiated children
    aliases,     \* the model's aliases: (element, alias name, address)
    children,    \* the child list of the parent node of the data-for element
    last,        \* the last DataViewFor::Update: what it saw, did and returned
    views,            \* DataViews::views
    views_to_add,     \* DataViews::views_to_add
    views_to_remove,  \* DataViews::views_to_remove
    name_view_map,    \* DataViews::name_view_map: entries per (name, view)
    live,             \* the elements that exist
    dv_pc,            \* where DataViews::Update is: "idle", "gather", "update"
    dv_i,             \* the loop counter i of DataViews::Update
    dirty_variables,  \* the argument of the running DataViews::Update
    dirty_views,      \* the dirty views not yet visited in this iteration
    running,          \* <<view>> while view->Update(model) runs, else <<>>
    updated,          \* the views passed to Update in this iteration, in order
    dv_result,        \* the local result of DataViews::Update
    owed,             \* the views a name dirtied during the call leaves to update
    ex_context,       \* the ParserContext of a data expression
    ex_execution,     \* the ExecutionContext of its last run
    ex_result,        \* what ParserContext::Execute returned
    ex_pc,            \* "constructed", "parsed" after Parse, "running", "executed"
    ex_ip,            \* ExecutionContext::Run: the loop index i of the running run
    ex_count,         \* how many times ParserContext::Execute was called
    type_register,    \* TypeRegister::type_register: id of a type -> definition
    ct_address,       \* DataController::address
    ct_value,         \* DataController::value, the value last written back
    ct_element,       \* whether DataController::attached_element still exists
    ct_model,         \* whether the element has a data model (GetDataModel())
    ct_call,          \* the last call of DataController::SetValue
    model_dirty,      \* the names handed to DataModel::DirtyVariable
    if_address,       \* DataViewIf::variable_address
    if_element,       \* whether the element of the DataViewIf still exists
    if_display,       \* the element's local property display: "absent" or its value
    if_last,          \* the last DataViewIf::Update: what it read and returned
    tx_in_text,       \* DataViewText: the constructor's argument in_text
    tx_text,          \* DataViewText::text, the literal text without the groups
    tx_data_entries,  \* DataViewText::data_entries
    tx_read,          \* per {{...}} group, the value its last successful read gave
    tx_pc,            \* "idle", "text" before the constructor, "constructed"
    tx_element_text   \* the text of the ElementText, as SetText left it

pvars == <<pa_str, pa_result, pa_pc>>
mvars == <<data, variables, op, status, type_register>>
fvars == <<variable_address, for_alive, elements, aliases, children, last>>
dvars == <<views, views_to_add, views_to_remove, name_view_map, live, dv_pc,
           dv_i, dirty_variables, dirty_views, running, updated, dv_result, owed>>
xvars == <<ex_context, ex_execution, ex_result, ex_pc, ex_ip, ex_count>>
evars == <<ct_address, ct_value, ct_element, ct_model, ct_call, model_dirty,
           if_address, if_element, if_display, if_last,
           tx_in_text, tx_text, tx_data_entries, tx_read, tx_pc,
           tx_element_text>>
tvars == <<tx_in_text, tx_text, tx_data_entries, tx_read, tx_pc,
           tx_element_text>>
vars == <<pa_str, pa_result, pa_pc, data, variables, op, status,
          variable_address, for_alive, elements, aliases, children, last,
          views, views_to_add, views_to_remove, name_view_map, live, dv_pc,
          dv_i, dirty_variables, dirty_views, running, updated, dv_result, owed,
          ex_context, ex_execution, ex_result, ex_pc, ex_ip, ex_count,
          type_register,
          ct_address, ct_value, ct_element, ct_model, ct_call, model_dirty,
          if_address, if_element, if_display, if_last,
          tx_in_text, tx_text, tx_data_entries, tx_read, tx_pc,
           tx_element_text>>

(***************************************************************************)
(* Bounds                                                                  *)
(***************************************************************************)
\* Longest enumerated address string
MaxLen == 5
\* Largest length the host gives the vector FunData::magic
MaxArr == 2
\* Largest length the host gives the array a data-for view is bound to
MaxFor == 5
\* Number of data views that can exist at a time
MaxViews == 3

(***************************************************************************)
(* Strings                                                                 *)
(***************************************************************************)
Min(S) == CHOOSE x \in S : \A y \in S : x <= y
Max(S) == CHOOSE x \in S : \A y \in S : x >= y

\* String::npos, the "not found" position
npos == -1

\* String::find(c, from): 0-based position of the first c at or after from
RECURSIVE Find(_, _, _)
Find(s, c, from) ==
    IF from >= Len(s) THEN npos
    ELSE IF s[from + 1] = c THEN from
    ELSE Find(s, c, from + 1)

\* String::substr(pos, count): count characters from 0-based pos, clipped to
\* the end of the string; count = npos takes the rest
Substr(s, pos, count) ==
    IF count = npos THEN SubSeq(s, pos + 1, Len(s))
    ELSE SubSeq(s, pos + 1, IF pos + count < Len(s) THEN pos + count ELSE Len(s))

\* StringUtilities::ExpandString(list, string, delimiter): the items between
\* the delimiters, in order
RECURSIVE ExpandString(_, _)
ExpandString(str, delimiter) ==
    LET i == Find(str, delimiter, 0)
    IN IF i = npos THEN <<str>>
       ELSE <<Substr(str, 0, i)>> \o ExpandString(Substr(str, i + 1, npos), delimiter)

Digits == {"0", "1", "2", "3", "4", "5", "6", "7", "8", "9"}

DigitVal(c) ==
    CASE c = "0" -> 0 [] c = "1" -> 1 [] c = "2" -> 2 [] c = "3" -> 3
      [] c = "4" -> 4 [] c = "5" -> 5 [] c = "6" -> 6 [] c = "7" -> 7
      [] c = "8" -> 8 [] c = "9" -> 9

\* Number of characters of s, from 1-based position i on, that are in set
RECURSIVE SpanOf(_, _, _)
SpanOf(s, i, set) ==
    IF i > Len(s) \/ s[i] \notin set THEN 0 ELSE 1 + SpanOf(s, i + 1, set)

\* Value of the n decimal digits of s that start at 1-based position i
RECURSIVE DecimalValue(_, _, _)
DecimalValue(s, i, n) ==
    IF n = 0 THEN 0 ELSE DecimalValue(s, i, n - 1) * 10 + DigitVal(s[i + n - 1])

\* The digits of sscanf(string, "%d"), which start at 1-based position first
\* and are negated when negative is true
ScanDigits(s, first, negative, n) ==
    [found |-> n > 0,
     value |-> IF negative THEN 0 - DecimalValue(s, first, n) ELSE DecimalValue(s, first, n)]

\* The optional sign of sscanf(string, "%d"), after the leading blanks
ScanSign(s, blanks) ==
    IF blanks + 1 <= Len(s) /\ s[blanks + 1] \in {"-", "+"}
    THEN ScanDigits(s, blanks + 2, s[blanks + 1] = "-", SpanOf(s, blanks + 2, Digits))
    ELSE ScanDigits(s, blanks + 1, FALSE, SpanOf(s, blanks + 1, Digits))

\* sscanf(string, "%d"): the integer the string starts with (leading blanks,
\* an optional sign, then digits; what follows the digits is not looked at),
\* and whether there is one
ScanInt(s) == ScanSign(s, SpanOf(s, 1, {" "}))

\* The value of a scan, default when nothing was found
ScanOr(scan, default) == IF scan.found THEN scan.value ELSE default

\* FromString<int>(string, default): the integer the string starts with,
\* default when it starts with none
FromStringInt(s, default) == ScanOr(ScanInt(s), default)

(***************************************************************************)
(* Address, AddressEntry, ParseAddress                                      *)
(***************************************************************************)
\* AddressEntry(String name): index is -1
NameEntry(name) == [name |-> name, index |-> -1]
\* AddressEntry(int index): name is the empty string
IndexEntry(index) == [name |-> <<>>, index |-> index]

ParseFailed == [ok |-> FALSE, address |-> <<>>]

RECURSIVE ParseBrackets(_, _, _)

\* One round of the while loop once the index is converted
ParseIndex(item, i_close, index, address) ==
    IF index < 0 THEN ParseFailed
    ELSE ParseBrackets(item, Find(item, "[", i_close + 1), Append(address, IndexEntry(index)))

\* One round of the while loop once the ']' is searched, with the index
\* text taken from the '[' itself (an off-by-one in the substr position)
ParseClose_FromBracket(item, i_open, i_close, address) ==
    IF i_close = npos THEN ParseFailed
    ELSE ParseIndex(item, i_close,
                    FromStringInt(Substr(item, i_open, i_close - i_open), -1), address)

\* One round of the while loop once the ']' is searched
ParseClose(item, i_open, i_close, address) ==
    IF i_close = npos THEN ParseFailed
    ELSE ParseIndex(item, i_close,
                    FromStringInt(Substr(item, i_open + 1, i_close - i_open), -1), address)

\* The while loop of ParseAddress over the bracket groups of one item,
\* entered with i_open at the first '[' (or npos)
ParseBrackets(item, i_open, address) ==
    IF i_open = npos THEN [ok |-> TRUE, address |-> address]
    ELSE ParseClose(item, i_open, Find(item, "]", i_open + 1), address)

\* The item from its first '[' (or npos) on
ParseOpen(item, i_open, address) ==
    IF i_open = 0 THEN ParseFailed
    ELSE ParseBrackets(item, i_open, Append(address, NameEntry(Substr(item, 0, i_open))))

\* The body of the for loop of ParseAddress, for one item of the list
ParseItem(item, address) ==
    IF item = <<>> THEN ParseFailed ELSE ParseOpen(item, Find(item, "[", 0), address)

RECURSIVE ParseItems(_, _, _)

\* The for loop after one item: return Address() or go on
ParseNext(list, k, r) ==
    IF r.ok THEN ParseItems(list, k + 1, r.address) ELSE <<>>

\* The for loop of ParseAddress from item k on
ParseItems(list, k, address) ==
    IF k > Len(list) THEN address
    ELSE ParseNext(list, k, ParseItem(list[k], address))

ParseAddress(address_str) == ParseItems(ExpandString(address_str, "."), 1, <<>>)

(***************************************************************************)
(* Variant: a dynamically typed value                                      *)
(***************************************************************************)
\* Variant(): holds nothing
EmptyVariant == [type |-> "none", b |-> FALSE, n |-> 0, s |-> <<>>, vec |-> <<>>]
\* Variant(const T& value): the type tag and the value, in the slot of its type
Variant(type, value) ==
    CASE type = "bool" -> [EmptyVariant EXCEPT !.type = type, !.b = value]
      [] type = "int" -> [EmptyVariant EXCEPT !.type = type, !.n = value]
      [] type = "String" -> [EmptyVariant EXCEPT !.type = type, !.s = value]
      [] type = "Vector2f" -> [EmptyVariant EXCEPT !.type = type, !.vec = value]
      [] type = "float" -> [EmptyVariant EXCEPT !.type = type, !.vec = value]
\* The value a Variant holds
ValueOf(variant) ==
    CASE variant.type = "bool" -> variant.b
      [] variant.type = "int" -> variant.n
      [] variant.type = "String" -> variant.s
      [] variant.type = "Vector2f" -> variant.vec
      [] variant.type = "float" -> variant.vec
      [] OTHER -> 0

RECURSIVE DigitsOf(_)
DigitsOf(n) ==
    LET d == CHOOSE c \in Digits : DigitVal(c) = n % 10
    IN IF n < 10 THEN <<d>> ELSE Append(DigitsOf(n \div 10), d)

\* ToString(int): the decimal digits, with a leading '-' below zero
IntToString(n) == IF n < 0 THEN <<"-">> \o DigitsOf(0 - n) ELSE DigitsOf(n)

(***************************************************************************)
(* float: a value is the fraction <<numerator, denominator>> in lowest     *)
(* terms with a positive denominator; denominator 0 stands for the         *)
(* non-finite values: <<1, 0>> is inf, <<-1, 0>> is -inf, <<0, 0>> is NaN. *)
(* Rounding and the sign of zero are not modelled.                         *)
(***************************************************************************)

RECURSIVE Gcd(_, _)
Gcd(a, b) == IF b = 0 THEN a ELSE Gcd(b, a % b)

Abs(n) == IF n < 0 THEN 0 - n ELSE n

Sign(n) == IF n < 0 THEN 0 - 1 ELSE IF n > 0 THEN 1 ELSE 0

\* The float numerator / denominator
Float(numerator, denominator) ==
    IF denominator = 0 THEN <<Sign(numerator), 0>>
    ELSE <<(Sign(denominator) * numerator) \div Gcd(Abs(numerator), Abs(denominator)),
           Abs(denominator) \div Gcd(Abs(numerator), Abs(denominator))>>

\* a + b
FloatAdd(a, b) ==
    IF a[2] = 0 /\ b[2] = 0 THEN (IF a = b THEN a ELSE <<0, 0>>)
    ELSE Float(a[1] * b[2] + b[1] * a[2], a[2] * b[2])

\* a - b
FloatSubtract(a, b) == FloatAdd(a, <<0 - b[1], b[2]>>)

\* a * b
FloatMultiply(a, b) == Float(a[1] * b[1], a[2] * b[2])

\* a / b
FloatDivide(a, b) == Float(a[1] * b[2], a[2] * b[1])

\* a == b, false when either is NaN
FloatEqual(a, b) == a = b /\ a # <<0, 0>>

\* a < b, false when either is NaN
FloatLess(a, b) == a[1] * b[2] < b[1] * a[2]

RECURSIVE Pow10(_)
Pow10(n) == IF n = 0 THEN 1 ELSE 10 * Pow10(n - 1)

\* sscanf(string, "%f"): optional blanks, an optional sign, digits with at
\* most one '.'; nothing is found without a digit
ScanFloat(s) ==
    LET start == 1 + SpanOf(s, 1, {" "})
        signed == start <= Len(s) /\ s[start] \in {"-", "+"}
        first == IF signed THEN start + 1 ELSE start
        whole == SpanOf(s, first, Digits)
        dotted == first + whole <= Len(s) /\ s[first + whole] = "."
        frac == IF dotted THEN SpanOf(s, first + whole + 1, Digits) ELSE 0
        magnitude == DecimalValue(s, first, whole) * Pow10(frac)
                        + DecimalValue(s, first + whole + 1, frac)
    IN [found |-> whole + frac > 0,
        value |-> Float(IF signed /\ s[start] = "-" THEN 0 - magnitude ELSE magnitude,
                        Pow10(frac))]

\* FromString<float>(string, default)
FromStringFloat(s, default) == ScanOr(ScanFloat(s), default)

\* The digits of n, padded with zeros on the left to width characters
RECURSIVE Padded(_, _)
Padded(n, width) ==
    IF width = 0 THEN <<>>
    ELSE Append(Padded(n \div 10, width - 1), DigitsOf(n % 10)[1])

\* s without its trailing zeros
RECURSIVE TrimZeros(_)
TrimZeros(s) ==
    IF s # <<>> /\ s[Len(s)] = "0" THEN TrimZeros(SubSeq(s, 1, Len(s) - 1)) ELSE s

\* The magnitude scaled by 1000 and rounded to the nearest integer
Thousandths(value) == (2000 * Abs(value[1]) + value[2]) \div (2 * value[2])

\* ToString(float): three decimals ("%.3f"), trailing zeros and a trailing
\* '.' removed
FloatToString(value) ==
    IF value[2] = 0
    THEN CASE value[1] = 0 -> <<"n", "a", "n">>
           [] value[1] = 1 -> <<"i", "n", "f">>
           [] OTHER -> <<"-", "i", "n", "f">>
    ELSE (IF value[1] < 0 THEN <<"-">> ELSE <<>>)
         \o DigitsOf(Thousandths(value) \div 1000)
         \o (IF Thousandths(value) % 1000 = 0 THEN <<>>
             ELSE <<".">> \o TrimZeros(Padded(Thousandths(value) % 1000, 3)))

\* The outcome of a conversion: whether it succeeded, and dest afterwards
Converted(ok, dest) == [ok |-> ok, dest |-> dest]

\* Variant::GetInto<T>(dest): converts the held value to T and stores it in
\* dest; a value that cannot be converted leaves dest as it was
GetInto(variant, T, dest) ==
    LET v == ValueOf(variant)
        failed == Converted(FALSE, dest)
    IN CASE variant.type = "none" -> failed
         [] variant.type = T -> Converted(TRUE, v)
         [] T = "int" /\ variant.type = "bool" -> Converted(TRUE, IF v THEN 1 ELSE 0)
         [] T = "int" /\ variant.type = "String" ->
                Converted(ScanInt(v).found, ScanOr(ScanInt(v), dest))
         [] T = "int" /\ variant.type = "float" ->
                IF v[2] = 0 THEN failed
                ELSE Converted(TRUE, Sign(v[1]) * (Abs(v[1]) \div v[2]))
         [] T = "float" /\ variant.type = "int" -> Converted(TRUE, Float(v, 1))
         [] T = "float" /\ variant.type = "bool" ->
                Converted(TRUE, Float(IF v THEN 1 ELSE 0, 1))
         [] T = "float" /\ variant.type = "String" ->
                Converted(ScanFloat(v).found, ScanOr(ScanFloat(v), dest))
         [] T = "bool" /\ variant.type = "int" -> Converted(TRUE, v # 0)
         [] T = "bool" /\ variant.type = "float" -> Converted(TRUE, v # <<0, 1>>)
         [] T = "bool" /\ variant.type = "String" ->
                IF v \in {<<"1">>, <<"t", "r", "u", "e">>} THEN Converted(TRUE, TRUE)
                ELSE IF v \in {<<"0">>, <<"f", "a", "l", "s", "e">>} THEN Converted(TRUE, FALSE)
                ELSE failed
         [] T = "String" /\ variant.type = "int" -> Converted(TRUE, IntToString(v))
         [] T = "String" /\ variant.type = "float" -> Converted(TRUE, FloatToString(v))
         [] T = "String" /\ variant.type = "bool" -> Converted(TRUE, IF v THEN <<"1">> ELSE <<"0">>)
         [] T = "String" /\ variant.type = "Vector2f" ->
                Converted(TRUE, IntToString(v[1]) \o <<",", " ">> \o IntToString(v[2]))
         [] OTHER -> failed

\* Variant::Get<T>(default_value): the converted value, default_value when
\* the held value cannot be converted
Get(variant, T, default) == GetInto(variant, T, default).dest

(***************************************************************************)
(* Host data and pointers into it.  A pointer is the path from the bound   *)
(* object to the pointed-to value: a struct member or an array position    *)
(* per step.  A path that leaves an array's elements is a wild pointer.    *)
(***************************************************************************)
MemberStep(member) == [member |-> member, index |-> -1]
IndexStep(index) == [member |-> "", index |-> index]

NullPtr == [obj |-> "null", path |-> <<>>]
Ptr(obj, path) == [obj |-> obj, path |-> path]

\* The value at the end of a path that stays inside the host data
RECURSIVE At(_, _)
At(v, path) ==
    IF path = <<>> THEN v
    ELSE LET s == Head(path)
         IN IF s.member # "" THEN At(v[s.member], Tail(path))
            ELSE At(v[s.index + 1], Tail(path))

\* v with the value at the end of the path replaced by x
RECURSIVE Put(_, _, _)
Put(v, path, x) ==
    IF path = <<>> THEN x
    ELSE LET s == Head(path)
         IN IF s.member # "" THEN [v EXCEPT ![s.member] = Put(v[s.member], Tail(path), x)]
            ELSE [v EXCEPT ![s.index + 1] = Put(v[s.index + 1], Tail(path), x)]

\* Whether the path stays inside the host data: every array position on it
\* is one of the array's elements
RECURSIVE InHost(_, _)
InHost(v, path) ==
    IF path = <<>> THEN TRUE
    ELSE LET s == Head(path)
         IN IF s.member # "" THEN InHost(v[s.member], Tail(path))
            ELSE /\ 0 <= s.index
                 /\ s.index < Len(v)
                 /\ InHost(v[s.index + 1], Tail(path))

(***************************************************************************)
(* Variable definitions and the type register of TestDataVariable          *)
(***************************************************************************)
\* Variable(): definition and ptr are null
NullVariable == [definition |-> "null", ptr |-> NullPtr]
MakeVariable(definition, ptr) == [definition |-> definition, ptr |-> ptr]
\* Variable::operator bool
IsValid(variable) == variable.definition # "null" /\ variable.ptr # NullPtr

ScalarDefinition(T) == [type |-> "Scalar", T |-> T]
ArrayDefinition(underlying_variable) ==
    [type |-> "Array", underlying_variable |-> underlying_variable]
\* member name -> (definition of the member, the member pointer)
StructDefinition(members) == [type |-> "Struct", members |-> members]
StructMember(variable, member_ptr) == [variable |-> variable, member_ptr |-> member_ptr]

\* The definitions TestDataVariable registers: struct FunData { int i;
\* String x; IntVector magic; }, struct SmartData { bool valid; FunData fun;
\* FunArray more_fun; }, with the one-letter member names i, x, g, v, f, m
TypeRegister ==
    [int |-> ScalarDefinition("int"),
     bool |-> ScalarDefinition("bool"),
     String |-> ScalarDefinition("String"),
     IntVector |-> ArrayDefinition("int"),
     FunData |-> StructDefinition(
         (<<"i">> :> StructMember("int", "i")) @@
         (<<"x">> :> StructMember("String", "x")) @@
         (<<"g">> :> StructMember("IntVector", "g"))),
     FunArray |-> ArrayDefinition("FunData"),
     SmartData |-> StructDefinition(
         (<<"v">> :> StructMember("bool", "v")) @@
         (<<"f">> :> StructMember("FunData", "f")) @@
         (<<"m">> :> StructMember("FunArray", "m")))]

\* VariableDefinition::Type
TypeOf(variable) == TypeRegister[variable.definition].type

\* The T of a variable with a ScalarDefinition<T>
ScalarTypeOf(variable) == TypeRegister[variable.definition].T

\* ScalarDefinition<T>::Get: variant = *static_cast<T*>(ptr)
ScalarGet(definition, value) == Variant(definition.T, value)

\* ScalarDefinition<T>::Set converting into a temporary instead of *ptr
ScalarSet_IntoTemporary(definition, value, variant) ==
    Converted(GetInto(variant, definition.T, value).ok, value)

\* ScalarDefinition<T>::Set on the value at ptr: [ok, the value afterwards]
ScalarSet(definition, value, variant) == GetInto(variant, definition.T, value)

\* ArrayDefinition::Size
ArraySize(container) == Len(container)

\* ArrayDefinition::GetChild always taking the first element
ArrayGetChild_FirstElement(definition, ptr, size, address) ==
    MakeVariable(definition.underlying_variable, Ptr(ptr.obj, Append(ptr.path, IndexStep(0))))

\* ArrayDefinition::GetChild: the bounds test, as written, and the element
\* pointer &((*ptr)[index])
ArrayGetChild(definition, ptr, size, address) ==
    LET index == address.index
    IN IF index < 0 /\ index >= size
       THEN NullVariable
       ELSE MakeVariable(definition.underlying_variable,
                         Ptr(ptr.obj, Append(ptr.path, IndexStep(index))))

\* StructDefinition::GetChild
StructGetChild(definition, ptr, address) ==
    LET name == address.name
    IN IF name = <<>> THEN NullVariable
       ELSE IF name \notin DOMAIN definition.members THEN NullVariable
       ELSE LET it == definition.members[name]
            IN MakeVariable(it.variable,
                            Ptr(ptr.obj, Append(ptr.path, MemberStep(it.member_ptr))))

\* Variable::GetChild: dispatch on the definition; a scalar has no children.
\* host is the bound object; the size of an array behind a wild pointer is
\* whatever the memory there holds, and the bounds test does not depend on it
VariableGetChild(host, variable, address) ==
    LET definition == TypeRegister[variable.definition]
    IN CASE definition.type = "Array" ->
                ArrayGetChild(definition, variable.ptr,
                              IF InHost(host, variable.ptr.path)
                              THEN ArraySize(At(host, variable.ptr.path)) ELSE 0,
                              address)
         [] definition.type = "Struct" -> StructGetChild(definition, variable.ptr, address)
         [] OTHER -> NullVariable

(***************************************************************************)
(* Model                                                                   *)
(***************************************************************************)
RECURSIVE GetChildren(_, _, _, _)

\* The loop body after GetChild: return Variable() or go on
GetChildrenNext(host, child, address, i) ==
    IF ~IsValid(child) THEN NullVariable ELSE GetChildren(host, child, address, i + 1)

\* The for loop of Model::GetVariable(const Address&) from entry i (1-based)
GetChildren(host, variable, address, i) ==
    IF i > Len(address) \/ ~IsValid(variable) THEN variable
    ELSE GetChildrenNext(host, VariableGetChild(host, variable, address[i]), address, i)

\* Model::GetVariable(const Address&) resolving a name that is no root against
\* some bound root
GetVariableByAddress_AnyRoot(vs, host, address) ==
    IF address = <<>> \/ address[1].name = <<>> THEN NullVariable
    ELSE GetChildren(host,
                     IF address[1].name \in DOMAIN vs THEN vs[address[1].name]
                     ELSE vs[CHOOSE name \in DOMAIN vs : TRUE],
                     address, 2)

\* Model::GetVariable(const Address& address)
GetVariableByAddress(vs, host, address) ==
    IF address = <<>> \/ address[1].name = <<>> THEN NullVariable
    ELSE IF address[1].name \notin DOMAIN vs THEN NullVariable
    ELSE GetChildren(host, vs[address[1].name], address, 2)

\* Model::GetVariable(const String&) once the string is parsed
GetVariableParsed(vs, host, address) ==
    IF address = <<>> \/ address[1].name = <<>> THEN NullVariable
    ELSE GetVariableByAddress(vs, host, address)

\* Model::GetVariable(const String& address_str)
GetVariable(vs, host, address_str) ==
    GetVariableParsed(vs, host, ParseAddress(address_str))

\* Whether the variable points into the host data (not null, not wild)
PointsIntoHost(host, variable) ==
    IsValid(variable) /\ InHost(host, variable.ptr.path)

(***************************************************************************)
(* Calls on the Model                                                      *)
(***************************************************************************)
\* Model::GetValue once the variable is resolved
GetValueOf(host, variable) ==
    IF ~IsValid(variable)
    THEN [variable |-> variable, wild |-> FALSE, result |-> EmptyVariant]
    ELSE IF TypeOf(variable) # "Scalar"
    THEN [variable |-> variable, wild |-> FALSE, result |-> EmptyVariant]
    ELSE IF ~InHost(host, variable.ptr.path)
    THEN [variable |-> variable, wild |-> TRUE, result |-> EmptyVariant]
    ELSE [variable |-> variable, wild |-> FALSE,
          result |-> ScalarGet(TypeRegister[variable.definition],
                               At(host, variable.ptr.path))]

\* Model::GetValue(address_str): the variable it resolved, the Variant it
\* returns, and whether it read through a wild pointer (then the value read
\* is whatever the memory holds)
ModelGetValue(vs, host, address_str) ==
    GetValueOf(host, GetVariable(vs, host, address_str))

\* Model::SetValue not looking at what variable.Set returned
SetValueDone_IgnoreResult(host, variable, r) ==
    [variable |-> variable, wild |-> FALSE, ok |-> TRUE,
     host |-> Put(host, variable.ptr.path, r.dest)]

\* Model::SetValue once variable.Set has run on an element of the host data
SetValueDone(host, variable, r) ==
    IF ~r.ok THEN [variable |-> variable, wild |-> FALSE, ok |-> FALSE, host |-> host]
    ELSE [variable |-> variable, wild |-> FALSE, ok |-> TRUE,
          host |-> Put(host, variable.ptr.path, r.dest)]

\* Model::SetValue once the variable is resolved
SetValueOf(host, variable, variant) ==
    IF ~IsValid(variable)
    THEN [variable |-> variable, wild |-> FALSE, ok |-> FALSE, host |-> host]
    ELSE IF TypeOf(variable) # "Scalar"
    THEN [variable |-> variable, wild |-> FALSE, ok |-> FALSE, host |-> host]
    ELSE IF ~InHost(host, variable.ptr.path)
    THEN [variable |-> variable,
          wild |-> ScalarSet(TypeRegister[variable.definition], 0, variant).ok,
          ok |-> ScalarSet(TypeRegister[variable.definition], 0, variant).ok,
          host |-> host]
    ELSE SetValueDone(host, variable,
                      ScalarSet(TypeRegister[variable.definition],
                                At(host, variable.ptr.path), variant))

\* Model::SetValue(address_str, variant): the variable it resolved, the bool
\* it returns, the host data afterwards, and whether it wrote through a wild
\* pointer
ModelSetValue(vs, host, address_str, variant) ==
    SetValueOf(host, GetVariable(vs, host, address_str), variant)

(***************************************************************************)
(* DataViewFor                                                             *)
(***************************************************************************)
\* The element carrying the data-for attribute; instantiated children are
\* numbered from 1
ForElement == 0
\* elements[i] = nullptr
NullElement == -1
\* The loop variable name when data-for names none
alias_name == <<"i", "t">>

\* Variable::Size: the container's size for an array, 0 (with a warning) for
\* any other definition
VariableSize(host, variable) ==
    IF TypeOf(variable) = "Array" THEN ArraySize(At(host, variable.ptr.path)) ELSE 0

\* DataModel::InsertAlias(element, alias_name, replacement_address)
InsertAlias(as, element, name, address) ==
    as \cup {[element |-> element, name |-> name, address |-> address]}

\* DataModel::EraseAliases(element)
EraseAliases(as, element) == {a \in as : a.element # element}

\* Factory::InstanceElement: an element that does not exist yet
NewElement(st) ==
    CHOOSE e \in 1..(Len(st.children) + 1) :
        /\ \A k \in 1..Len(st.children) : st.children[k] # e
        /\ \A d \in 1..(e - 1) : \E k \in 1..Len(st.children) : st.children[k] = d

\* Element::InsertBefore(child, adjacent): child placed right before adjacent
InsertBefore(list, child, adjacent) ==
    IF \E k \in 1..Len(list) : list[k] = adjacent
    THEN SubSeq(list, 1, (CHOOSE k \in 1..Len(list) : list[k] = adjacent) - 1)
         \o <<child>>
         \o SubSeq(list, CHOOSE k \in 1..Len(list) : list[k] = adjacent, Len(list))
    ELSE Append(list, child)

\* Element::RemoveChild(child)
RemoveChild(list, child) == SelectSeq(list, LAMBDA e : e # child)

Event(what, element, index) == [what |-> what, element |-> element, index |-> index]

\* The branch i >= num_elements of the loop, with the instanced element new,
\* expanding the template before the alias is registered
ForInstance_AliasAfterRml(st, i, address, new) ==
    [elements |-> Append(st.elements, new),
     aliases |-> InsertAlias(st.aliases, new, alias_name, Append(address, IndexEntry(i))),
     children |-> InsertBefore(st.children, new, ForElement),
     log |-> st.log \o <<Event("InstanceElement", new, i),
                         Event("InsertBefore", new, i),
                         Event("SetInnerRML", Append(st.elements, new)[i + 1], i),
                         Event("InsertAlias", new, i)>>]

\* The branch i >= num_elements of the loop, with the instanced element new
ForInstance(st, i, address, new) ==
    [elements |-> Append(st.elements, new),
     aliases |-> InsertAlias(st.aliases, new, alias_name, Append(address, IndexEntry(i))),
     children |-> InsertBefore(st.children, new, ForElement),
     log |-> st.log \o <<Event("InstanceElement", new, i),
                         Event("InsertAlias", new, i),
                         Event("InsertBefore", new, i),
                         Event("SetInnerRML", Append(st.elements, new)[i + 1], i)>>]

\* The branch i >= size of the loop, removing the first child instead of
\* child i
ForRemove_FromFront(st, i) ==
    [elements |-> [st.elements EXCEPT ![i + 1] = NullElement],
     aliases |-> EraseAliases(st.aliases, st.elements[1]),
     children |-> RemoveChild(st.children, st.elements[1]),
     log |-> st.log \o <<Event("EraseAliases", st.elements[1], i),
                         Event("RemoveChild", st.elements[1], i)>>]

\* The branch i >= size of the loop
ForRemove(st, i) ==
    [elements |-> [st.elements EXCEPT ![i + 1] = NullElement],
     aliases |-> EraseAliases(st.aliases, st.elements[i + 1]),
     children |-> RemoveChild(st.children, st.elements[i + 1]),
     log |-> st.log \o <<Event("EraseAliases", st.elements[i + 1], i),
                         Event("RemoveChild", st.elements[i + 1], i)>>]

\* One round of the loop of DataViewFor::Update
ForStep(st, i, size, num_elements, address) ==
    IF i >= num_elements THEN ForInstance(st, i, address, NewElement(st))
    ELSE IF i >= size THEN ForRemove(st, i)
    ELSE st

\* The loop of DataViewFor::Update from round i on; n is
\* Math::Max(size, num_elements)
RECURSIVE ForLoop(_, _, _, _, _, _)
ForLoop(st, i, n, size, num_elements, address) ==
    IF i >= n THEN st
    ELSE ForLoop(ForStep(st, i, size, num_elements, address), i + 1, n,
                 size, num_elements, address)

\* if (num_elements > size) elements.resize(size), forgotten
ForResize_Forgotten(st, size, num_elements) == st

\* if (num_elements > size) elements.resize(size)
ForResize(st, size, num_elements) ==
    IF num_elements > size
    THEN [st EXCEPT !.elements = SubSeq(st.elements, 1, size)]
    ELSE st

\* DataViewFor::Update once the variable is resolved and its size is read
ForUpdateSized(st, size, num_elements, address) ==
    ForResize(ForLoop(st, 0, IF size > num_elements THEN size ELSE num_elements,
                      size, num_elements, address),
              size, num_elements)

\* The record of an Update that has not been made
NoUpdate ==
    [called |-> FALSE, resolved |-> FALSE, size |-> 0, result |-> FALSE,
     elements |-> <<>>, aliases |-> {}, children |-> <<>>, log |-> <<>>]

\* DataViewFor::Update: the view afterwards (elements, aliases, children,
\* log) with the result; before holds the view when Update was called
ForUpdate(host, vs, address, st) ==
    IF ~IsValid(GetVariableByAddress(vs, host, address))
    THEN [st EXCEPT !.log = <<>>] @@ [resolved |-> FALSE, size |-> 0, result |-> FALSE]
    ELSE ForUpdateSized([st EXCEPT !.log = <<>>],
                        VariableSize(host, GetVariableByAddress(vs, host, address)),
                        Len(st.elements), address)
         @@ [resolved |-> TRUE,
             size |-> VariableSize(host, GetVariableByAddress(vs, host, address)),
             result |-> FALSE]

\* No data-for view has been made
ForIdle ==
    /\ variable_address = <<>>
    /\ for_alive = TRUE
    /\ elements = <<>>
    /\ aliases = {}
    /\ children = <<ForElement>>
    /\ last = NoUpdate

(***************************************************************************)
(* DataViews: the views of a data model and their update pass.  A view is  *)
(* identified by its address, 1..MaxViews; an address is used again once   *)
(* the view at it has been destroyed.                                      *)
(***************************************************************************)
\* The upper limit of the loop of DataViews::Update
UpdateLimit == 10

Views == 1..MaxViews
\* The data variable names views depend on
Names == {"a", "b"}

\* The element a view is attached to: each view has an element of its own,
\* so that views can go on being destroyed and made during one call
ElementOf(view) == view
Elements == {ElementOf(view) : view \in Views}
\* DataView::GetElementDepth: the number of ancestors counted in the
\* constructor; the elements of views 1 and 3 lie deeper than the element
\* of view 2
GetElementDepth(view) == (ElementOf(view) % 2) + 1
\* DataView::GetVariableNameList: one name, two names, or one name twice
GetVariableNameList(view) ==
    IF view % 3 = 1 THEN <<"a">>
    ELSE IF view % 3 = 2 THEN <<"a", "b">>
    ELSE <<"b", "b">>
\* DataView::IsValid: the attached element still exists
ViewIsValid(els, view) == ElementOf(view) \in els

Range(seq) == {seq[k] : k \in 1..Len(seq)}
\* How often x is in seq
Count(seq, x) == Cardinality({k \in 1..Len(seq) : seq[k] = x})
\* seq without its k-th element
Without(seq, k) == SubSeq(seq, 1, k - 1) \o SubSeq(seq, k + 1, Len(seq))

\* name_view_map.emplace(variable_name, view) for each name of each view
EmplaceAll(map, added) ==
    [e \in DOMAIN map |->
        map[e] + IF e[2] \in Range(added)
                 THEN Count(GetVariableNameList(e[2]), e[1]) ELSE 0]

\* The views of name_view_map.equal_range(variable_name), for the views up
\* to view
RECURSIVE EqualRange(_, _, _)
EqualRange(map, variable_name, view) ==
    IF view < 1 THEN <<>>
    ELSE EqualRange(map, variable_name, view - 1)
         \o [k \in 1..map[<<variable_name, view>>] |-> view]

\* The loop over dirty_variables pushing the views of each name
RECURSIVE PushDirty(_, _)
PushDirty(map, names) ==
    IF names = {} THEN <<>>
    ELSE EqualRange(map, CHOOSE n \in names : TRUE, MaxViews)
         \o PushDirty(map, names \ {CHOOSE n \in names : TRUE})

\* seq sorted by address, for the views up to view
RECURSIVE SortedUpTo(_, _)
SortedUpTo(seq, view) ==
    IF view < 1 THEN <<>>
    ELSE SortedUpTo(seq, view - 1) \o [k \in 1..Count(seq, view) |-> view]

\* std::sort(dirty_views.begin(), dirty_views.end()): by address
SortViews(seq) == SortedUpTo(seq, MaxViews)

\* dirty_views left with its duplicate entries
Unique_Skipped(seq) == seq

\* std::unique and erase: of equal neighbours only the first stays
Unique(seq) ==
    SelectSeq([k \in 1..Len(seq) |->
                  IF k > 1 /\ seq[k] = seq[k - 1] THEN 0 ELSE seq[k]],
              LAMBDA view : view # 0)

\* dirty_views without the added views
GatherDirty_OnlyDirtyNames(map, added, names) ==
    Unique(SortViews(PushDirty(map, names)))

\* dirty_views before the sort by depth: the added views, the views of the
\* dirty names, duplicates removed
GatherDirty(map, added, names) ==
    Unique(SortViews(added \o PushDirty(map, names)))

\* The views to remove destroyed with their name_view_map entries left in
EraseViews_Kept(map, removed) == map

\* The erasing of every name_view_map entry of the views to remove
EraseViews(map, removed) ==
    [e \in DOMAIN map |-> IF e[2] \in Range(removed) THEN 0 ELSE map[e]]

\* A view occupies an address while one of the three lists owns it
InUse(view) ==
    view \in Range(views) \cup Range(views_to_add) \cup Range(views_to_remove)

\* Between calls of DataViews::Update, or inside a view's Update
OutsideOrInView == dv_pc = "idle" \/ running # <<>>

ViewsIdle ==
    /\ views = <<>>
    /\ views_to_add = <<>>
    /\ views_to_remove = <<>>
    /\ name_view_map = [e \in Names \X Views |-> 0]
    /\ live = Elements
    /\ dv_pc = "idle"
    /\ dv_i = 0
    /\ dirty_variables = {}
    /\ dirty_views = <<>>
    /\ running = <<>>
    /\ updated = <<>>
    /\ dv_result = FALSE
    /\ owed = {}

(***************************************************************************)
(* DataParser: the recursive-descent compiler of data expressions.  The    *)
(* ParserContext is a record that every parser function takes and returns; *)
(* parse_depth only feeds the log and is left out.                         *)
(***************************************************************************)

\* What Look returns at the end of the expression
NUL == "\\0"

\* ParserContext(String expression)
ParserContext(expression) ==
    [expression |-> expression, index |-> 0, reached_end |-> FALSE,
     parse_error |-> FALSE, program_stack_size |-> 0, program |-> <<>>,
     internal_error |-> FALSE]

\* ParserContext::Look(): the character at index, NUL past the end
Look(context) ==
    IF context.index >= Len(context.expression) THEN NUL
    ELSE context.expression[context.index + 1]

\* ParserContext::Next(): ++index
NextChar(context) == [context EXCEPT !.index = @ + 1]

\* StringUtilities::IsWhitespace
IsWhitespace(c) == c \in {" ", "\t", "\n", "\r"}

\* ParserContext::SkipWhitespace()
RECURSIVE SkipWhitespace(_)
SkipWhitespace(context) ==
    IF IsWhitespace(Look(context)) THEN SkipWhitespace(NextChar(context))
    ELSE context

\* ParserContext::Error and Expected: parse_error is set, the parse goes on
Error(context) == [context EXCEPT !.parse_error = TRUE]

\* ParserContext::Match(c, skip_whitespace): consumes c, or reports an error
\* and consumes nothing
Match(context, c, skip_whitespace) ==
    IF c = Look(context)
    THEN IF skip_whitespace THEN SkipWhitespace(NextChar(context))
         ELSE NextChar(context)
    ELSE Error(context)

\* enum class Register
RegisterIndex(register) ==
    CASE register = "R" -> 0 [] register = "L" -> 1 [] register = "C" -> 2

\* InstructionData{instruction, data}
InstructionData(instruction, payload) ==
    [instruction |-> instruction, data |-> payload]

\* Error("Internal parser error: ..."): as Error, and internal_error keeps
\* that a message of this kind was logged
InternalError(context) == [Error(context) EXCEPT !.internal_error = TRUE]

\* ParserContext::Emit(instruction, data)
Emit(context, instruction, payload) ==
    [context EXCEPT !.program = Append(@, InstructionData(instruction, payload))]

\* ParserContext::Push()
Push(context) ==
    [context EXCEPT !.program_stack_size = @ + 1,
                    !.program = Append(@, InstructionData("Push", EmptyVariant))]

\* ParserContext::Pop(destination)
Pop(context, destination) ==
    IF context.program_stack_size <= 0 THEN InternalError(context)
    ELSE [context EXCEPT
             !.program_stack_size = @ - 1,
             !.program = Append(@, InstructionData("Pop",
                             Variant("int", RegisterIndex(destination))))]

\* ParserContext::Arguments(num_arguments)
Arguments(context, num_arguments) ==
    IF context.program_stack_size < num_arguments THEN InternalError(context)
    ELSE [context EXCEPT
             !.program_stack_size = @ - num_arguments,
             !.program = Append(@, InstructionData("Arguments",
                             Variant("int", num_arguments)))]

\* The characters from the 0-based index from up to, not including, to
Between(context, from, to) == SubSeq(context.expression, from + 1, to)

\* The loop of StringLiteral: up to the first quote that no backslash
\* precedes, or the end of the expression
RECURSIVE StringLiteralEnd(_, _)
StringLiteralEnd(context, previous_character_is_escape) ==
    IF Look(context) # NUL /\ (Look(context) # "'" \/ previous_character_is_escape)
    THEN StringLiteralEnd(NextChar(context), Look(context) = "\\")
    ELSE context

\* StringLiteral(context), given the context after its loop
StringLiteralFrom(context, end) ==
    Emit(end, "Literal", Variant("String", Between(context, context.index, end.index)))

StringLiteral(context) == StringLiteralFrom(context, StringLiteralEnd(context, FALSE))

\* The digit loop of NumberLiteral: digits and at most one '.'
RECURSIVE NumberLiteralEnd(_, _)
NumberLiteralEnd(context, has_dot) ==
    IF Look(context) \in Digits \/ (Look(context) = "." /\ ~has_dot)
    THEN NumberLiteralEnd(NextChar(context), has_dot \/ Look(context) = ".")
    ELSE context

\* The context after the optional '-' of NumberLiteral
NumberLiteralSign(context) ==
    IF Look(context) = "-" THEN NextChar(context) ELSE context

\* NumberLiteral(context), given the context after its loop: an error when
\* the loop matched nothing, else the literal FromString(str, 0.0f)
NumberLiteralFrom(context, end) ==
    IF end.index = NumberLiteralSign(context).index THEN Error(end)
    ELSE Emit(end, "Literal",
              Variant("float", FromStringFloat(Between(context, context.index, end.index),
                                               Float(0, 1))))

NumberLiteral(context) ==
    NumberLiteralFrom(context, NumberLiteralEnd(NumberLiteralSign(context), FALSE))

Letters ==
    {"a", "b", "c", "d", "e", "f", "g", "h", "i", "j", "k", "l", "m",
     "n", "o", "p", "q", "r", "s", "t", "u", "v", "w", "x", "y", "z",
     "A", "B", "C", "D", "E", "F", "G", "H", "I", "J", "K", "L", "M",
     "N", "O", "P", "Q", "R", "S", "T", "U", "V", "W", "X", "Y", "Z"}

\* IsVariableCharacter(c, is_first_character)
IsVariableCharacter(c, is_first_character) ==
    IF is_first_character THEN c \in Letters
    ELSE c \in Letters \/ c \in Digits \/ c \in {"_", ".", "[", "]", " "}

\* The loop of VariableName: the context after the variable characters
RECURSIVE VariableNameEnd(_, _)
VariableNameEnd(context, is_first_character) ==
    IF IsVariableCharacter(Look(context), is_first_character)
    THEN VariableNameEnd(NextChar(context), FALSE)
    ELSE context

\* "Right trim spaces in name": the first character always stays
RECURSIVE RightTrim(_)
RightTrim(name) ==
    IF Len(name) > 1 /\ name[Len(name)] = " "
    THEN RightTrim(SubSeq(name, 1, Len(name) - 1))
    ELSE name

\* VariableName(context): the name it returns (the context it leaves is
\* VariableNameEnd)
VariableName(context) ==
    RightTrim(Between(context, context.index, VariableNameEnd(context, TRUE).index))

\* DoVariable(context), given the context after VariableName and the name
DoVariableFrom(end, name) ==
    IF name = <<>> THEN Error(end)
    ELSE IF name = <<"t", "r", "u", "e">> THEN Emit(end, "Literal", Variant("bool", TRUE))
    ELSE IF name = <<"f", "a", "l", "s", "e">> THEN Emit(end, "Literal", Variant("bool", FALSE))
    ELSE Emit(end, "Variable", Variant("String", name))

DoVariable(context) ==
    DoVariableFrom(VariableNameEnd(context, TRUE), VariableName(context))

RECURSIVE Enter(_, _)

\* Add(context)
Parser_Add(context) ==
    Emit(Pop(Enter(Push(Match(context, "+", TRUE)), "Term"), "L"), "Add", EmptyVariant)

Subtract(context) ==
    Emit(Pop(Enter(Push(Match(context, "-", TRUE)), "Term"), "L"), "Subtract", EmptyVariant)

Multiply(context) ==
    Emit(Pop(Enter(Push(Match(context, "*", TRUE)), "Factor"), "L"), "Multiply", EmptyVariant)

\* As Divide, but the right operand is a whole Term
Divide_RightOperandTerm(context) ==
    Emit(Pop(Enter(Push(Match(context, "/", TRUE)), "Term"), "L"), "Divide", EmptyVariant)

Divide(context) ==
    Emit(Pop(Enter(Push(Match(context, "/", TRUE)), "Factor"), "L"), "Divide", EmptyVariant)

Not(context) == Emit(Enter(Match(context, "!", TRUE), "Factor"), "Not", EmptyVariant)

\* Or(context): the first '|' was consumed by Expression
Or(context) ==
    Emit(Pop(Enter(Push(Match(context, "|", TRUE)), "Term"), "L"), "Or", EmptyVariant)

And(context) ==
    Emit(Pop(Enter(Push(Match(Match(context, "&", FALSE), "&", TRUE)), "Term"), "L"),
         "And", EmptyVariant)

Equal(context) ==
    Emit(Pop(Enter(Push(Match(Match(context, "=", FALSE), "=", TRUE)), "Term"), "L"),
         "Equal", EmptyVariant)

NotEqual(context) ==
    Emit(Pop(Enter(Push(Match(Match(context, "!", FALSE), "=", TRUE)), "Term"), "L"),
         "NotEqual", EmptyVariant)

\* The tail shared by Less and Greater once the operator is consumed
Comparison(context, instruction) ==
    Emit(Pop(Enter(Push(context), "Term"), "L"), instruction, EmptyVariant)

\* Less and Greater, given the context after Match(c, false)
OrEqual(context, strict, or_equal) ==
    IF Look(context) = "=" THEN Comparison(Match(context, "=", TRUE), or_equal)
    ELSE Comparison(SkipWhitespace(context), strict)

Less(context) == OrEqual(Match(context, "<", FALSE), "Less", "LessEq")

Greater(context) == OrEqual(Match(context, ">", FALSE), "Greater", "GreaterEq")

\* As Ternary, but the two registers are popped the other way round
Ternary_PopsSwapped(context) ==
    Emit(Pop(Pop(Enter(Match(Push(Enter(Push(Match(context, "?", TRUE)), "Expression")),
                             ":", TRUE),
                       "Expression"),
                 "L"),
             "C"),
         "Ternary", EmptyVariant)

Ternary(context) ==
    Emit(Pop(Pop(Enter(Match(Push(Enter(Push(Match(context, "?", TRUE)), "Expression")),
                             ":", TRUE),
                       "Expression"),
                 "C"),
             "L"),
         "Ternary", EmptyVariant)

\* The argument loop of Function: one pass per argument
RECURSIVE FunctionArguments(_, _)

\* The switch that ends one pass of the argument loop, and what follows the
\* loop: Arguments(num_arguments) and Pop(R)
FunctionNext(context, num_arguments) ==
    CASE Look(context) = ")" ->
            Pop(Arguments(Match(context, ")", TRUE), num_arguments), "R")
      [] Look(context) = "," ->
            FunctionArguments(Match(context, ",", TRUE), num_arguments)
      [] OTHER -> Pop(Arguments(Error(context), num_arguments), "R")

FunctionArguments(context, num_arguments) ==
    FunctionNext(Push(Enter(context, "Expression")), num_arguments + 1)

\* As FunctionCall, but R is not pushed before the arguments
FunctionCall_NoPush(context) ==
    IF Look(context) = ")" THEN Match(context, ")", TRUE)
    ELSE FunctionArguments(context, 0)

\* Function(context) from Match('(') on, with context after the '('
FunctionCall(context) ==
    IF Look(context) = ")" THEN Match(context, ")", TRUE)
    ELSE FunctionArguments(Push(context), 0)

\* Function(context), given the context after VariableName and the name
FunctionFrom(end, name) ==
    IF name = <<>> THEN Error(end)
    ELSE Emit(IF Look(end) = "(" THEN FunctionCall(Match(end, "(", TRUE))
              ELSE SkipWhitespace(end),
              "Function", Variant("String", name))

\* Function(context): the '|' was consumed by Expression
Function(context) == FunctionFrom(VariableNameEnd(context, TRUE), VariableName(context))

Factor(context) ==
    CASE Look(context) = "(" ->
            Match(Enter(Match(context, "(", TRUE), "Expression"), ")", TRUE)
      [] Look(context) = "'" ->
            Match(Enter(Match(context, "'", FALSE), "StringLiteral"), "'", TRUE)
      [] Look(context) = "!" -> SkipWhitespace(Enter(context, "Not"))
      [] Look(context) = "-" \/ Look(context) \in Digits ->
            SkipWhitespace(Enter(context, "NumberLiteral"))
      [] Look(context) \in Letters -> SkipWhitespace(Enter(context, "Variable"))
      [] OTHER -> Error(context)

\* The loop of Term
RECURSIVE TermLoop(_)
TermLoop(context) ==
    CASE Look(context) = "*" -> TermLoop(Enter(context, "Multiply"))
      [] Look(context) = "/" -> TermLoop(Enter(context, "Divide"))
      [] OTHER -> context

Term(context) == TermLoop(Enter(context, "Factor"))

\* case '|' of Expression, given the context after Match('|', false)
OrOrFunction(context) ==
    IF Look(context) = "|" THEN Enter(context, "Or")
    ELSE Enter(SkipWhitespace(context), "Function")

\* The loop of Expression
RECURSIVE ExpressionLoop(_)
ExpressionLoop(context) ==
    CASE Look(context) = "+" -> ExpressionLoop(Enter(context, "Add"))
      [] Look(context) = "-" -> ExpressionLoop(Enter(context, "Subtract"))
      [] Look(context) = "?" -> ExpressionLoop(Enter(context, "Ternary"))
      [] Look(context) = "|" -> ExpressionLoop(OrOrFunction(Match(context, "|", FALSE)))
      [] Look(context) = "&" -> ExpressionLoop(Enter(context, "And"))
      [] Look(context) = "=" -> ExpressionLoop(Enter(context, "Equal"))
      [] Look(context) = "!" -> ExpressionLoop(Enter(context, "NotEqual"))
      [] Look(context) = "<" -> ExpressionLoop(Enter(context, "Less"))
      [] Look(context) = ">" -> ExpressionLoop(Enter(context, "Greater"))
      [] Look(context) = NUL -> [context EXCEPT !.reached_end = TRUE]
      [] OTHER -> context

Expression(context) == ExpressionLoop(Enter(context, "Term"))

\* ParserContext::Enter(type)
Enter(context, type) ==
    CASE type = "Expression" -> Expression(context)
      [] type = "Factor" -> Factor(context)
      [] type = "Term" -> Term(context)
      [] type = "StringLiteral" -> StringLiteral(context)
      [] type = "NumberLiteral" -> NumberLiteral(context)
      [] type = "Variable" -> DoVariable(context)
      [] type = "Add" -> Parser_Add(context)
      [] type = "Subtract" -> Subtract(context)
      [] type = "Multiply" -> Multiply(context)
      [] type = "Divide" -> Divide(context)
      [] type = "Not" -> Not(context)
      [] type = "And" -> And(context)
      [] type = "Or" -> Or(context)
      [] type = "Equal" -> Equal(context)
      [] type = "NotEqual" -> NotEqual(context)
      [] type = "Less" -> Less(context)
      [] type = "Greater" -> Greater(context)
      [] type = "Ternary" -> Ternary(context)
      [] type = "Function" -> Function(context)

\* Parse not looking at reached_end
ParseEnd_Unchecked(context) == context

\* What Parse does once Enter(Type::Expression) returned
ParseEnd(context) ==
    IF ~context.reached_end THEN Error(context) ELSE context

\* ParserContext::Parse()
Parse(context) ==
    ParseEnd(Enter([context EXCEPT !.index = 0, !.reached_end = FALSE,
                                   !.parse_error = FALSE],
                   "Expression"))

(***************************************************************************)
(* ExecutionContext: the abstract machine that runs a compiled program.    *)
(* The stack is a sequence with its top at the end.                        *)
(***************************************************************************)

\* ExecutionContext(program): empty registers, stack and arguments
ExecutionContext ==
    [R |-> EmptyVariant, L |-> EmptyVariant, C |-> EmptyVariant,
     stack |-> <<>>, arguments |-> <<>>, success |-> TRUE]

\* ExecutionContext::Error: Execute returns false
ExecutionError(execution) == [execution EXCEPT !.success = FALSE]

\* As AnyString, but true only when both hold a string
AnyString_BothStrings(v1, v2) == v1.type = "String" /\ v2.type = "String"

\* The lambda AnyString of Execute
AnyString(v1, v2) == v1.type = "String" \/ v2.type = "String"

\* case Instruction::Pop
ExecutePop(execution, reg) ==
    IF execution.stack = <<>> THEN ExecutionError(execution)
    ELSE CASE reg = RegisterIndex("R") ->
                [execution EXCEPT !.R = execution.stack[Len(execution.stack)],
                                  !.stack = SubSeq(@, 1, Len(@) - 1)]
           [] reg = RegisterIndex("L") ->
                [execution EXCEPT !.L = execution.stack[Len(execution.stack)],
                                  !.stack = SubSeq(@, 1, Len(@) - 1)]
           [] reg = RegisterIndex("C") ->
                [execution EXCEPT !.C = execution.stack[Len(execution.stack)],
                                  !.stack = SubSeq(@, 1, Len(@) - 1)]
           [] OTHER -> ExecutionError(execution)

\* As ExecuteArguments, but the arguments are stored in the order they are
\* popped
ExecuteArguments_AsPopped(execution, num_arguments) ==
    IF execution.arguments # <<>> THEN ExecutionError(execution)
    ELSE IF num_arguments < 0 THEN ExecutionError(execution)
    ELSE IF Len(execution.stack) < num_arguments THEN ExecutionError(execution)
    ELSE [execution EXCEPT
             !.arguments = [k \in 1..num_arguments |->
                                execution.stack[Len(execution.stack) - k + 1]],
             !.stack = SubSeq(@, 1, Len(@) - num_arguments)]

\* case Instruction::Arguments
ExecuteArguments(execution, num_arguments) ==
    IF execution.arguments # <<>> THEN ExecutionError(execution)
    ELSE IF num_arguments < 0 THEN ExecutionError(execution)
    ELSE IF Len(execution.stack) < num_arguments THEN ExecutionError(execution)
    ELSE [execution EXCEPT
             !.arguments = SubSeq(execution.stack,
                                  Len(execution.stack) - num_arguments + 1,
                                  Len(execution.stack)),
             !.stack = SubSeq(@, 1, Len(@) - num_arguments)]

\* The float operations of Execute on L.Get<float>() and R.Get<float>()
FloatOperation(instruction, l, r) ==
    CASE instruction = "Add" -> Variant("float", FloatAdd(l, r))
      [] instruction = "Subtract" -> Variant("float", FloatSubtract(l, r))
      [] instruction = "Multiply" -> Variant("float", FloatMultiply(l, r))
      [] instruction = "Divide" -> Variant("float", FloatDivide(l, r))
      [] instruction = "Equal" -> Variant("bool", FloatEqual(l, r))
      [] instruction = "NotEqual" -> Variant("bool", ~FloatEqual(l, r))
      [] instruction = "Less" -> Variant("bool", FloatLess(l, r))
      [] instruction = "LessEq" -> Variant("bool", FloatLess(l, r) \/ FloatEqual(l, r))
      [] instruction = "Greater" -> Variant("bool", FloatLess(r, l))
      [] instruction = "GreaterEq" -> Variant("bool", FloatLess(r, l) \/ FloatEqual(l, r))

\* The string branches of Add, Equal and NotEqual on L.Get<String>() and
\* R.Get<String>()
StringOperation(instruction, l, r) ==
    CASE instruction = "Add" -> Variant("String", l \o r)
      [] instruction = "Equal" -> Variant("bool", l = r)
      [] instruction = "NotEqual" -> Variant("bool", l # r)

\* ExecutionContext::Execute(instruction, data)
Execute(execution, instruction, payload) ==
    CASE instruction = "Push" ->
            [execution EXCEPT !.stack = Append(@, execution.R), !.R = EmptyVariant]
      [] instruction = "Pop" -> ExecutePop(execution, Get(payload, "int", 0 - 1))
      [] instruction \in {"Literal", "Variable"} -> [execution EXCEPT !.R = payload]
      [] instruction \in {"Add", "Equal", "NotEqual"} ->
            IF AnyString(execution.L, execution.R)
            THEN [execution EXCEPT !.R = StringOperation(instruction,
                                            Get(execution.L, "String", <<>>),
                                            Get(execution.R, "String", <<>>))]
            ELSE [execution EXCEPT !.R = FloatOperation(instruction,
                                            Get(execution.L, "float", Float(0, 1)),
                                            Get(execution.R, "float", Float(0, 1)))]
      [] instruction \in {"Subtract", "Multiply", "Divide",
                          "Less", "LessEq", "Greater", "GreaterEq"} ->
            [execution EXCEPT !.R = FloatOperation(instruction,
                                        Get(execution.L, "float", Float(0, 1)),
                                        Get(execution.R, "float", Float(0, 1)))]
      [] instruction = "Not" ->
            [execution EXCEPT !.R = Variant("bool", ~Get(execution.R, "bool", FALSE))]
      [] instruction = "And" ->
            [execution EXCEPT !.R = Variant("bool", Get(execution.L, "bool", FALSE)
                                                     /\ Get(execution.R, "bool", FALSE))]
      [] instruction = "Or" ->
            [execution EXCEPT !.R = Variant("bool", Get(execution.L, "bool", FALSE)
                                                     \/ Get(execution.R, "bool", FALSE))]
      [] instruction = "Arguments" ->
            ExecuteArguments(execution, Get(payload, "int", 0 - 1))
      [] instruction = "Ternary" ->
            IF Get(execution.L, "bool", FALSE)
            THEN [execution EXCEPT !.R = execution.C]
            ELSE execution
      [] instruction = "Function" -> [execution EXCEPT !.arguments = <<>>]

\* The loop of ExecutionContext::Run from instruction i (1-based) on: it
\* stops at the first instruction that fails
RECURSIVE RunFrom(_, _, _)
RunFrom(execution, program, i) ==
    IF i > Len(program) \/ ~execution.success THEN execution
    ELSE RunFrom(Execute(execution, program[i].instruction, program[i].data),
                 program, i + 1)

\* ExecutionContext::Run()
Run(program) == RunFrom(ExecutionContext, program, 1)

\* ExecutionContext::Result()
Result(execution) == Get(execution.R, "String", <<>>)

\* ParserContext::Execute(), given the finished run: String() after a parse
\* error or a failed run
ExecuteFrom(context, execution) ==
    IF context.parse_error THEN <<>>
    ELSE IF execution.success THEN Result(execution)
    ELSE <<>>

\* The ExecutionContext that ParserContext::Execute() runs; none is made
\* after a parse error
Execution(context) ==
    IF context.parse_error THEN ExecutionContext ELSE Run(context.program)

\* No controller is used: one without address on an element that exists
NoControllerCall ==
    [kind |-> "none", new_value |-> EmptyVariant, asserted |-> TRUE]

\* No DataViewIf has run
NoIfUpdate == [kind |-> "none", ok |-> FALSE, value |-> FALSE, result |-> FALSE]

\* No DataViewText is constructed
TextIdle ==
    /\ tx_in_text = <<>>
    /\ tx_text = <<>>
    /\ tx_data_entries = <<>>
    /\ tx_read = <<>>
    /\ tx_pc = "idle"
    /\ tx_element_text = <<>>

\* No DataViewIf is used
IfIdle ==
    /\ if_address = <<>>
    /\ if_element = TRUE
    /\ if_display = "absent"
    /\ if_last = NoIfUpdate

ControllerIdle ==
    /\ ct_address = <<>>
    /\ ct_value = EmptyVariant
    /\ ct_element = TRUE
    /\ ct_model = TRUE
    /\ ct_call = NoControllerCall
    /\ model_dirty = {}

\* No data expression: an empty ParserContext that was never parsed
ExprIdle ==
    /\ ex_context = ParserContext(<<>>)
    /\ ex_execution = ExecutionContext
    /\ ex_result = <<>>
    /\ ex_pc = "idle"
    /\ ex_ip = 0
    /\ ex_count = 0

(***************************************************************************)
(* Specification of the Model over the host data of TestDataVariable       *)
(***************************************************************************)
\* FunData with the vector magic still empty
FunData0 == [i |-> 99, x |-> <<"h", "i">>, g |-> <<>>]
\* SmartData data; model.BindStruct("data", &data), the root named d here
SmartData0 == [v |-> TRUE, f |-> FunData0, m |-> <<FunData0, FunData0>>]
Variables0 == (<<"d">> :> MakeVariable("SmartData", Ptr("data", <<>>)))

\* d.v: valid, a bool
A_v == <<"d", ".", "v">>
\* d.f.x: fun.x, a String
A_fx == <<"d", ".", "f", ".", "x">>
\* d.f.g[0]: fun.magic[0], there once the vector has grown
A_fg0 == <<"d", ".", "f", ".", "g", "[", "0", "]">>
\* d.f.g[1]: fun.magic[1]
A_fg1 == <<"d", ".", "f", ".", "g", "[", "1", "]">>
\* d.f.g[9]: an index the vector never reaches
A_fg9 == <<"d", ".", "f", ".", "g", "[", "9", "]">>
\* d.m[1].i: more_fun[1].i
A_m1i == <<"d", ".", "m", "[", "1", "]", ".", "i">>
\* d.m[2].i: one past the end of the fixed array more_fun
A_m2i == <<"d", ".", "m", "[", "2", "]", ".", "i">>
\* d.f.g.i: a name entry (index -1) applied to an array
A_fgi == <<"d", ".", "f", ".", "g", ".", "i">>
\* d.f: a struct, no scalar
A_f == <<"d", ".", "f">>
\* d.q: no such member
A_q == <<"d", ".", "q">>
\* q.v: no such root
A_root == <<"q", ".", "v">>
\* d.v.i: a child of a scalar
A_vi == <<"d", ".", "v", ".", "i">>
\* d[: malformed
A_bad == <<"d", "[">>

ModelAddresses ==
    {A_v, A_fx, A_fg0, A_fg1, A_fg9,
     A_m1i, A_m2i, A_fgi, A_f, A_q,
     A_root, A_vi, A_bad}

\* The values handed to SetValue
SetInputs ==
    {Variant("String", <<"1", "9">>), Variant("String", <<"h", "o">>),
     Variant("Vector2f", <<1, 2>>)}

\* What a read through a wild pointer can return for a scalar of type T
Garbage(T) ==
    CASE T = "int" -> {0, 77}
      [] T = "bool" -> {TRUE, FALSE}
      [] T = "String" -> {<<>>, <<"?">>}

NoCall(host) ==
    [kind |-> "none", address_str |-> <<>>, arg |-> EmptyVariant,
     variable |-> NullVariable, ret |-> EmptyVariant, ok |-> FALSE, before |-> host]

ModelIdle ==
    /\ data = SmartData0
    /\ variables = Variables0
    /\ op = NoCall(SmartData0)
    /\ status = "running"
    /\ type_register = TypeRegister

\* The host resizes the vector data.fun.magic (new elements are 0)
HostResizeMagic ==
    /\ status = "running"
    /\ \E n \in 0..MaxArr :
        /\ n # Len(data.f.g)
        /\ data' = [data EXCEPT !.f.g =
                       [k \in 1..n |-> IF k <= Len(data.f.g) THEN data.f.g[k] ELSE 0]]
    /\ op' = NoCall(data')
    /\ UNCHANGED <<variables, status>>
    /\ UNCHANGED <<pvars, xvars, evars>>
    /\ UNCHANGED type_register
    /\ UNCHANGED dvars
    /\ UNCHANGED fvars

\* The host assigns data.valid
HostWriteValid ==
    /\ status = "running"
    /\ data' = [data EXCEPT !.v = ~data.v]
    /\ op' = NoCall(data')
    /\ UNCHANGED <<variables, status>>
    /\ UNCHANGED <<pvars, xvars, evars>>
    /\ UNCHANGED type_register
    /\ UNCHANGED dvars
    /\ UNCHANGED fvars

\* The record of a call of GetValue
GetValueCall(address_str, variable, ret, host) ==
    [kind |-> "GetValue", address_str |-> address_str, arg |-> EmptyVariant,
     variable |-> variable, ret |-> ret, ok |-> FALSE, before |-> host]

\* GetValue returns.  A read through a wild pointer is undefined: it yields
\* some value of the scalar's type, or the process dies
GetValueReturns(address_str, r) ==
    \/ /\ ~r.wild
       /\ status' = "running"
       /\ op' = GetValueCall(address_str, r.variable, r.result, data)
    \/ /\ r.wild
       /\ status' = "running"
       /\ \E x \in Garbage(ScalarTypeOf(r.variable)) :
            op' = GetValueCall(address_str, r.variable,
                               Variant(ScalarTypeOf(r.variable), x), data)
    \/ /\ r.wild
       /\ status' = "crashed"
       /\ op' = GetValueCall(address_str, r.variable, EmptyVariant, data)

CallGetValue ==
    /\ status = "running"
    /\ \E address_str \in ModelAddresses :
        GetValueReturns(address_str, ModelGetValue(variables, data, address_str))
    /\ UNCHANGED <<data, variables>>
    /\ UNCHANGED <<pvars, xvars, evars>>
    /\ UNCHANGED type_register
    /\ UNCHANGED dvars
    /\ UNCHANGED fvars

\* SetValue returns.  A write through a wild pointer is undefined: it
\* overwrites memory outside the bound data, or the process dies
SetValueReturns(address_str, variant, r) ==
    /\ op' = [kind |-> "SetValue", address_str |-> address_str,
              arg |-> variant, variable |-> r.variable,
              ret |-> EmptyVariant, ok |-> r.ok, before |-> data]
    /\ data' = r.host
    /\ IF r.wild THEN status' \in {"corrupted", "crashed"}
       ELSE status' = "running"

CallSetValue ==
    /\ status = "running"
    /\ \E address_str \in ModelAddresses, variant \in SetInputs :
        SetValueReturns(address_str, variant,
                        ModelSetValue(variables, data, address_str, variant))
    /\ UNCHANGED variables
    /\ UNCHANGED <<pvars, xvars, evars>>
    /\ UNCHANGED type_register
    /\ UNCHANGED dvars
    /\ UNCHANGED fvars

NextModel ==
    \/ HostResizeMagic
    \/ HostWriteValid
    \/ CallGetValue
    \/ CallSetValue

ParseIdle ==
    /\ pa_str = <<>>
    /\ pa_result = <<>>
    /\ pa_pc = "call"

InitModel == ModelIdle /\ ParseIdle /\ ForIdle /\ ViewsIdle /\ ExprIdle /\ ControllerIdle /\ IfIdle /\ TextIdle

SpecModel == InitModel /\ [][NextModel]_vars

(***************************************************************************)
(* Binding roots: Model::BindScalar / BindStruct / BindArray               *)
(***************************************************************************)
\* TypeRegister::Get<T>: the definition registered for T, or nullptr
RegisterGet(register, T) == IF T \in DOMAIN register THEN T ELSE "null"

\* TypeRegister::GetOrAddScalar<T>: emplace (id, nullptr); a ScalarDefinition<T>
\* is made only when the id was not there.  [the register afterwards, the
\* definition returned]
GetOrAddScalar(register, T) ==
    IF T \in DOMAIN register
    THEN [register |-> register, definition |-> T]
    ELSE [register |-> (T :> ScalarDefinition(T)) @@ register, definition |-> T]

\* Model::Bind assigning variables[name] where the name exists already
Bind_Overwriting(vs, register, name, ptr, variable, type) ==
    IF variable = "null" THEN [ok |-> FALSE, variables |-> vs]
    ELSE IF register[variable].type # type THEN [ok |-> FALSE, variables |-> vs]
    ELSE [ok |-> name \notin DOMAIN vs,
          variables |-> (name :> MakeVariable(variable, ptr)) @@ vs]

\* Model::Bind(name, ptr, variable, type): [what it returns, Model::variables
\* afterwards].  variables.emplace inserts only where the name is not a key
Bind(vs, register, name, ptr, variable, type) ==
    IF variable = "null" THEN [ok |-> FALSE, variables |-> vs]
    ELSE IF register[variable].type # type THEN [ok |-> FALSE, variables |-> vs]
    ELSE IF name \in DOMAIN vs THEN [ok |-> FALSE, variables |-> vs]
    ELSE [ok |-> TRUE, variables |-> (name :> MakeVariable(variable, ptr)) @@ vs]

\* The root names the host binds
BindNames == {<<"d">>, <<"e">>, <<"s">>}

\* The host's objects by type: SmartData data and a second SmartData, a
\* FunData, an int, a float, an IntVector, and objects of two types that were
\* never registered (a struct Other and a vector of float)
HostObjects ==
    [SmartData |-> {"data", "other_data"},
     FunData |-> {"fun"},
     int |-> {"number"},
     float |-> {"ratio"},
     IntVector |-> {"vector"},
     Other |-> {"other"},
     FloatVector |-> {"floats"}]

\* The types T for which ScalarDefinition<T> can be instantiated
ScalarTypes == {"int", "float"}
\* The types BindStruct and BindArray are called with
BoundTypes == DOMAIN HostObjects

\* The record of a call of BindScalar, BindStruct or BindArray
BindCall(kind, name, T, ptr, ok) ==
    [kind |-> kind, address_str |-> name, arg |-> EmptyVariant,
     variable |-> MakeVariable(T, ptr), ret |-> EmptyVariant, ok |-> ok,
     before |-> data]

\* Bind returns
BindReturns(kind, name, T, ptr, r) ==
    /\ variables' = r.variables
    /\ op' = BindCall(kind, name, T, ptr, r.ok)

\* model.BindScalar<T>(name, ptr)
CallBindScalar ==
    /\ status = "running"
    /\ \E name \in BindNames, T \in ScalarTypes :
        \E obj \in HostObjects[T] :
            /\ type_register' = GetOrAddScalar(type_register, T).register
            /\ BindReturns("BindScalar", name, T, Ptr(obj, <<>>),
                           Bind(variables, type_register', name, Ptr(obj, <<>>),
                                GetOrAddScalar(type_register, T).definition, "Scalar"))
    /\ UNCHANGED <<data, status>>
    /\ UNCHANGED <<pvars, fvars, dvars, xvars, evars>>

\* model.BindStruct<T>(name, ptr)
CallBindStruct ==
    /\ status = "running"
    /\ \E name \in BindNames, T \in BoundTypes :
        \E obj \in HostObjects[T] :
            BindReturns("BindStruct", name, T, Ptr(obj, <<>>),
                        Bind(variables, type_register, name, Ptr(obj, <<>>),
                             RegisterGet(type_register, T), "Struct"))
    /\ UNCHANGED <<data, status, type_register>>
    /\ UNCHANGED <<pvars, fvars, dvars, xvars, evars>>

\* model.BindArray<T>(name, ptr)
CallBindArray ==
    /\ status = "running"
    /\ \E name \in BindNames, T \in BoundTypes :
        \E obj \in HostObjects[T] :
            BindReturns("BindArray", name, T, Ptr(obj, <<>>),
                        Bind(variables, type_register, name, Ptr(obj, <<>>),
                             RegisterGet(type_register, T), "Array"))
    /\ UNCHANGED <<data, status, type_register>>
    /\ UNCHANGED <<pvars, fvars, dvars, xvars, evars>>

NextBind ==
    \/ CallBindScalar
    \/ CallBindStruct
    \/ CallBindArray

SpecBind == InitModel /\ [][NextBind]_vars

(***************************************************************************)
(* Registering types: TypeRegister::RegisterStruct and                     *)
(* StructHandle::RegisterMember                                            *)
(***************************************************************************)
\* TypeRegister::RegisterStruct<T>: emplace (id, a StructDefinition without
\* members); the register is left as it was where the id is a key already
RegisterStruct(register, T) ==
    IF T \in DOMAIN register THEN register
    ELSE (T :> StructDefinition(<<>>)) @@ register

\* StructDefinition::AddMember: members.emplace(name, member)
AddMember(definition, name, member) ==
    IF name \in DOMAIN definition.members THEN definition
    ELSE [definition EXCEPT !.members = (name :> member) @@ definition.members]

\* The condition of the assertion at the head of RegisterMember
HandleMatches(register, MemberType, member_handle) ==
    member_handle = RegisterGet(register, MemberType)

\* StructHandle<Object>::RegisterMember(name, member_ptr, member_handle) after
\* its assertion: the register once struct_definition->AddMember has run
RegisterMember(register, Object, name, member_ptr, member_handle) ==
    [register EXCEPT ![Object] =
        AddMember(register[Object], name, StructMember(member_handle, member_ptr))]

\* struct Other { int a; FunData f; IntVector g; }: the declared type of
\* each member
MemberTypes == [a |-> "int", f |-> "FunData", g |-> "IntVector"]

\* The names members are registered under
MemberNames == {<<"a">>, <<"f">>, <<"g">>}

\* The handles the host holds: of the scalar int, of FunData, of IntVector
MemberHandles == {"int", "FunData", "IntVector"}

\* The record of a call of RegisterMember
RegisterMemberCall(name, member_ptr, member_handle, ok) ==
    [kind |-> "RegisterMember", address_str |-> name, arg |-> EmptyVariant,
     variable |-> MakeVariable(member_handle, Ptr("Other", <<MemberStep(member_ptr)>>)),
     ret |-> EmptyVariant, ok |-> ok, before |-> data]

\* types.RegisterStruct<Other>()
CallRegisterStruct ==
    /\ status = "running"
    /\ type_register' = RegisterStruct(type_register, "Other")
    /\ op' = [NoCall(data) EXCEPT !.kind = "RegisterStruct"]
    /\ UNCHANGED <<data, variables, status>>
    /\ UNCHANGED <<pvars, fvars, dvars, xvars, evars>>

\* other_handle.RegisterMember(name, &Other::member_ptr, member_handle).  The
\* assertion is compiled out of a release build; where it is compiled in and
\* fails, the handler either lets the call go on or stops the process
CallRegisterMember ==
    /\ status = "running"
    /\ "Other" \in DOMAIN type_register
    /\ \E name \in MemberNames, member_ptr \in DOMAIN MemberTypes,
          member_handle \in MemberHandles :
        /\ op' = RegisterMemberCall(name, member_ptr, member_handle,
                    HandleMatches(type_register, MemberTypes[member_ptr], member_handle))
        /\ \/ /\ type_register' = RegisterMember(type_register, "Other", name,
                                                 member_ptr, member_handle)
              /\ status' = "running"
           \/ /\ ~HandleMatches(type_register, MemberTypes[member_ptr], member_handle)
              /\ type_register' = type_register
              /\ status' = "crashed"
    /\ UNCHANGED <<data, variables>>
    /\ UNCHANGED <<pvars, fvars, dvars, xvars, evars>>

NextRegister ==
    \/ CallRegisterStruct
    \/ CallRegisterMember

SpecRegister == InitModel /\ [][NextRegister]_vars

(***************************************************************************)
(* DataController and DataControllerValue: writing a value of the element  *)
(* back into the bound variable                                            *)
(***************************************************************************)
\* Variable::Set: definition->Set(ptr, variant); only a ScalarDefinition
\* overrides Set.  [what Set returns, the host data afterwards]
VariableSet(host, variable, variant) ==
    IF TypeOf(variable) # "Scalar" THEN [ok |-> FALSE, host |-> host]
    ELSE [ok |-> ScalarSet(TypeRegister[variable.definition],
                           At(host, variable.ptr.path), variant).ok,
          host |-> Put(host, variable.ptr.path,
                       ScalarSet(TypeRegister[variable.definition],
                                 At(host, variable.ptr.path), variant).dest)]

\* DataModel::ModelDirtyVariable(variable_name)
ModelDirtyVariable(dirty, variable_name) == dirty \cup {variable_name}

\* The fields of the controller, the host data and the dirty names after a
\* call of SetValue
Written(value, host, dirty) == [value |-> value, host |-> host, dirty |-> dirty]

\* DataController::SetValue(new_value), its assertions apart
SetValue(address, value, element, model, vs, host, dirty, new_value) ==
    IF value = new_value THEN Written(value, host, dirty)
    ELSE IF ~element THEN Written(value, host, dirty)
    ELSE IF ~model THEN Written(value, host, dirty)
    ELSE IF IsValid(GetVariableByAddress(vs, host, address))
    THEN Written(new_value,
                 VariableSet(host, GetVariableByAddress(vs, host, address), new_value).host,
                 ModelDirtyVariable(dirty, address[1].name))
    ELSE Written(value, host, dirty)

\* The assertions SetValue passes on its way: !address.empty(), and once the
\* value differs from the cached one, element and model
SetValueAsserts(address, value, element, model, new_value) ==
    /\ address # <<>>
    /\ value # new_value => element /\ model

\* DataControllerValue::DataControllerValue(model, element, in_variable_name):
\* the address the controller is left with; SetAddress is called only for a
\* name that resolves
DataControllerValue(vs, host, in_variable_name) ==
    IF IsValid(GetVariableByAddress(vs, host, ParseAddress(in_variable_name)))
       /\ ParseAddress(in_variable_name) # <<>>
    THEN ParseAddress(in_variable_name)
    ELSE <<>>

\* d.f.i: fun.i, an int
A_fi == <<"d", ".", "f", ".", "i">>

\* The variable names data-value attributes carry: the scalars d.f.i, d.v and
\* d.f.x, the struct d.f, and d.q, which names no member
ControllerVariables == {A_fi, A_v, A_fx, A_f, A_q}

\* The values of the element's attribute "value"
ControllerInputs ==
    {Variant("String", <<"1", "9">>), Variant("String", <<"h", "o">>),
     Variant("String", <<"1">>), Variant("int", 7)}

\* The values the host assigns to a field of each scalar type
HostValues(T) ==
    CASE T = "int" -> {99, 7, 19}
      [] T = "bool" -> {TRUE, FALSE}
      [] T = "String" -> {<<"h", "i">>, <<"1", "9">>}

\* The variable the controller's address resolves to
BoundVariable == GetVariableByAddress(variables, data, ct_address)

InitController ==
    /\ ModelIdle /\ ParseIdle /\ ForIdle /\ ViewsIdle /\ ExprIdle /\ IfIdle /\ TextIdle
    /\ ct_address \in {DataControllerValue(Variables0, SmartData0, in_variable_name) :
                          in_variable_name \in ControllerVariables}
    /\ ct_value = EmptyVariant
    /\ ct_element = TRUE
    /\ ct_model = TRUE
    /\ ct_call = NoControllerCall
    /\ model_dirty = {}

\* SetValue(new_value) returns; where one of its assertions fails, a build
\* with assertions stops there or goes on as the handler decides, a build
\* without goes on
ControllerSetValueReturns(new_value, r) ==
    /\ ct_call' = [kind |-> "SetValue", new_value |-> new_value,
                   asserted |-> ct_address # <<>>]
    /\ \/ /\ ct_value' = r.value
          /\ data' = r.host
          /\ model_dirty' = r.dirty
          /\ status' = "running"
       \/ /\ ~SetValueAsserts(ct_address, ct_value, ct_element, ct_model, new_value)
          /\ status' = "crashed"
          /\ UNCHANGED <<ct_value, data, model_dirty>>

\* DataControllerValue::ProcessEvent: a change event on the element, whose
\* attribute "value" holds new_value
ProcessEvent ==
    /\ status = "running"
    /\ ct_element
    /\ \E new_value \in ControllerInputs :
        ControllerSetValueReturns(new_value,
                        SetValue(ct_address, ct_value, ct_element, ct_model,
                                 variables, data, model_dirty, new_value))
    /\ op' = NoCall(data')
    /\ UNCHANGED <<variables, type_register, ct_address, ct_element, ct_model>>
    /\ UNCHANGED <<pvars, fvars, dvars, xvars>>
    /\ UNCHANGED <<if_address, if_element, if_display, if_last>>
    /\ UNCHANGED tvars

\* A call of SetValue that no event of the element leads to, made by the
\* controller's owner
CallControllerSetValue ==
    /\ status = "running"
    /\ ~ct_element \/ ~ct_model
    /\ \E new_value \in ControllerInputs :
        ControllerSetValueReturns(new_value,
                        SetValue(ct_address, ct_value, ct_element, ct_model,
                                 variables, data, model_dirty, new_value))
    /\ op' = NoCall(data')
    /\ UNCHANGED <<variables, type_register, ct_address, ct_element, ct_model>>
    /\ UNCHANGED <<pvars, fvars, dvars, xvars>>
    /\ UNCHANGED <<if_address, if_element, if_display, if_last>>
    /\ UNCHANGED tvars

\* The host assigns the field the controller is bound to
HostWriteBound ==
    /\ status = "running"
    /\ IsValid(BoundVariable)
    /\ TypeOf(BoundVariable) = "Scalar"
    /\ \E x \in HostValues(ScalarTypeOf(BoundVariable)) :
        /\ x # At(data, BoundVariable.ptr.path)
        /\ data' = Put(data, BoundVariable.ptr.path, x)
    /\ op' = NoCall(data')
    /\ UNCHANGED <<variables, status, type_register>>
    /\ ct_call' = NoControllerCall
    /\ UNCHANGED <<ct_address, ct_value, ct_element, ct_model, model_dirty>>
    /\ UNCHANGED <<pvars, fvars, dvars, xvars>>
    /\ UNCHANGED <<if_address, if_element, if_display, if_last>>
    /\ UNCHANGED tvars

\* The element is destroyed: attached_element.get() gives nullptr from now on
ElementDestroyed ==
    /\ status = "running"
    /\ ct_element
    /\ ct_element' = FALSE
    /\ ct_call' = NoControllerCall
    /\ UNCHANGED <<ct_address, ct_value, ct_model, model_dirty>>
    /\ UNCHANGED <<mvars, pvars, fvars, dvars, xvars>>
    /\ UNCHANGED <<if_address, if_element, if_display, if_last>>
    /\ UNCHANGED tvars

\* The element is moved out of the data model: GetDataModel() gives nullptr
ElementLeavesModel ==
    /\ status = "running"
    /\ ct_element
    /\ ct_model
    /\ ct_model' = FALSE
    /\ ct_call' = NoControllerCall
    /\ UNCHANGED <<ct_address, ct_value, ct_element, model_dirty>>
    /\ UNCHANGED <<mvars, pvars, fvars, dvars, xvars>>
    /\ UNCHANGED <<if_address, if_element, if_display, if_last>>
    /\ UNCHANGED tvars

NextController ==
    \/ ProcessEvent
    \/ CallControllerSetValue
    \/ HostWriteBound
    \/ ElementDestroyed
    \/ ElementLeavesModel

SpecController == InitController /\ [][NextController]_vars

(***************************************************************************)
(* DataViewIf: the element's local display property follows a bound value  *)
(***************************************************************************)
\* DataModel::GetValue(address, bool& out_value): [whether the value was
\* read and converted, the bool]
GetValueBool(vs, host, address) ==
    GetInto(GetValueOf(host, GetVariableByAddress(vs, host, address)).result, "bool", FALSE)

\* DataViewIf::Update once the value is read: [the element's local display
\* property afterwards, what Update returns].  is_visible is whether the
\* element has no local display property
DataViewIfUpdate(display, element, read) ==
    IF read.ok /\ element
    THEN IF (display = "absent") # read.dest
         THEN [display |-> IF read.dest THEN "absent" ELSE "none", result |-> TRUE]
         ELSE [display |-> display, result |-> FALSE]
    ELSE [display |-> display, result |-> FALSE]

\* The names data-if attributes carry: the bool d.v, the int d.f.i, the
\* struct d.f, and d.q, which names no member
IfBindings == {A_v, A_fi, A_f, A_q}

\* The values of the local display property an element starts with or is
\* given by its style attribute: none of its own, none, block, inline
DisplayValues == {"absent", "none", "block", "inline"}

InitIf ==
    /\ ModelIdle /\ ParseIdle /\ ForIdle /\ ViewsIdle /\ ExprIdle /\ ControllerIdle
    /\ TextIdle
    /\ if_address \in {ParseAddress(binding_name) : binding_name \in IfBindings}
    /\ if_element = TRUE
    /\ if_display \in DisplayValues
    /\ if_last = NoIfUpdate

\* Update returns
IfUpdateReturns(read, r) ==
    /\ if_display' = r.display
    /\ if_last' = [kind |-> "Update", ok |-> read.ok /\ if_element, value |-> read.dest,
                   result |-> r.result]

\* view.Update(model)
IfUpdate ==
    /\ IfUpdateReturns(GetValueBool(variables, data, if_address),
                       DataViewIfUpdate(if_display, if_element,
                                        GetValueBool(variables, data, if_address)))
    /\ UNCHANGED <<if_address, if_element>>
    /\ UNCHANGED <<ct_address, ct_value, ct_element, ct_model, ct_call, model_dirty>>
    /\ UNCHANGED <<mvars, pvars, fvars, dvars, xvars>>
    /\ UNCHANGED tvars

\* The element's style attribute is set: its local display property changes
IfStyleSet ==
    /\ if_element
    /\ \E display \in DisplayValues :
        /\ display # if_display
        /\ if_display' = display
    /\ if_last' = NoIfUpdate
    /\ UNCHANGED <<if_address, if_element>>
    /\ UNCHANGED <<ct_address, ct_value, ct_element, ct_model, ct_call, model_dirty>>
    /\ UNCHANGED <<mvars, pvars, fvars, dvars, xvars>>
    /\ UNCHANGED tvars

\* The element is destroyed
IfElementDestroyed ==
    /\ if_element
    /\ if_element' = FALSE
    /\ UNCHANGED <<if_address, if_display, if_last>>
    /\ UNCHANGED <<ct_address, ct_value, ct_element, ct_model, ct_call, model_dirty>>
    /\ UNCHANGED <<mvars, pvars, fvars, dvars, xvars>>
    /\ UNCHANGED tvars

NextIf ==
    \/ IfUpdate
    \/ HostWriteValid
    \/ IfStyleSet
    \/ IfElementDestroyed

SpecIf == InitIf /\ [][NextIf]_vars

(***************************************************************************)
(* DataViewText: a text with {{...}} groups and the values read for them   *)
(***************************************************************************)
\* String::find(str, from) for a string of two characters: 0-based position
\* of its first occurrence at or after from
RECURSIVE FindString(_, _, _)
FindString(s, str, from) ==
    IF from + 2 > Len(s) THEN npos
    ELSE IF s[from + 1] = str[1] /\ s[from + 2] = str[2] THEN from
    ELSE FindString(s, str, from + 1)

\* DataEntry: index is the place in text where the value goes
DataEntry(index, name) == [index |-> index, name |-> name, value |-> <<>>]

\* DataViewText::DataViewText before the loop
TextStart == [text |-> <<>>, data_entries |-> <<>>, previous_close_brackets |-> 0,
              success |-> TRUE]

RECURSIVE TextLoop(_, _, _)

\* The body of the constructor's loop once `{{` was found at begin_brackets:
\* text is the text with the literal before the group already inserted
TextGroup(in_text, text, view, begin_brackets, end_name) ==
    IF end_name = npos
    THEN [view EXCEPT !.text = text, !.success = FALSE]
    ELSE TextLoop(in_text, end_name + 2,
                  [text |-> text,
                   data_entries |-> Append(view.data_entries,
                        DataEntry(Len(text), SubSeq(in_text, begin_brackets + 3, end_name))),
                   previous_close_brackets |-> end_name + 2,
                   success |-> TRUE])

\* One test of the loop condition, given what in_text.find("{{", ...) gave
TextFound(in_text, view, begin_brackets) ==
    IF begin_brackets = npos THEN view
    ELSE TextGroup(in_text,
                   view.text \o SubSeq(in_text, view.previous_close_brackets + 1,
                                       begin_brackets),
                   view, begin_brackets,
                   FindString(in_text, <<"}", "}">>, begin_brackets + 2))

\* The loop of the constructor, searching from begin_brackets on
TextLoop(in_text, begin_brackets, view) ==
    TextFound(in_text, view, FindString(in_text, <<"{", "{">>, begin_brackets))

\* As TextEnd, but the text after the last group is left out
TextEnd_NoTail(in_text, view) ==
    IF view.success /\ view.data_entries # <<>>
    THEN [text |-> view.text, data_entries |-> view.data_entries]
    ELSE [text |-> <<>>, data_entries |-> <<>>]

\* The constructor after its loop: the text after the last group is added,
\* or, without success, text and data_entries are cleared
TextEnd(in_text, view) ==
    IF view.success /\ view.data_entries # <<>>
    THEN [text |-> view.text \o SubSeq(in_text, view.previous_close_brackets + 1,
                                       Len(in_text)),
          data_entries |-> view.data_entries]
    ELSE [text |-> <<>>, data_entries |-> <<>>]

\* DataViewText::DataViewText(model, in_parent_element, in_text,
\* index_begin_search): [text, data_entries]
DataViewText(in_text, index_begin_search) ==
    TextEnd(in_text, TextLoop(in_text, index_begin_search, TextStart))

\* The loop of DataViewText::Update: reads[i] is what model.GetValue gave
\* for the i-th entry, [ok, value]
UpdateEntries(data_entries, reads) ==
    [i \in 1..Len(data_entries) |->
        IF reads[i].ok /\ data_entries[i].value # reads[i].value
        THEN [data_entries[i] EXCEPT !.value = reads[i].value]
        ELSE data_entries[i]]

\* The loop of DataViewText::BuildText from the k-th entry on
RECURSIVE BuildFrom(_, _, _, _, _)
BuildFrom(text, data_entries, k, previous_index, result) ==
    IF k > Len(data_entries)
    THEN IF previous_index < Len(text)
         THEN result \o Substr(text, previous_index, npos)
         ELSE result
    ELSE BuildFrom(text, data_entries, k + 1, data_entries[k].index,
                   result \o Substr(text, previous_index,
                                    data_entries[k].index - previous_index)
                          \o data_entries[k].value)

\* DataViewText::BuildText()
BuildText(text, data_entries) == BuildFrom(text, data_entries, 1, 0, <<>>)

\* The longest text of Texts
MaxText == 9

\* Every text of up to MaxText braces and letters
Texts == UNION {[1..n -> {"{", "}", "a"}] : n \in 0..MaxText}

\* What DataModel::GetValue may give for an entry: no value, or a string
Reads ==
    {[ok |-> FALSE, value |-> <<>>]}
    \cup {[ok |-> TRUE, value |-> value] : value \in {<<>>, <<"x">>, <<"y", "}">>}}

\* The index of the first character after position i that begins `}}`, 0
\* when there is none
RECURSIVE GroupEnd(_, _)
GroupEnd(s, i) ==
    IF i + 1 > Len(s) THEN 0
    ELSE IF s[i] = "}" /\ s[i + 1] = "}" THEN i
    ELSE GroupEnd(s, i + 1)

\* Whether a well-terminated group begins at s[i]
GroupAt(s, i) ==
    /\ i + 1 <= Len(s)
    /\ s[i] = "{" /\ s[i + 1] = "{"
    /\ GroupEnd(s, i + 2) # 0

\* The number of well-terminated groups of s from s[i] on, read from the left
RECURSIVE NumGroups(_, _)
NumGroups(s, i) ==
    IF i > Len(s) THEN 0
    ELSE IF GroupAt(s, i) THEN 1 + NumGroups(s, GroupEnd(s, i + 2) + 2)
    ELSE NumGroups(s, i + 1)

\* The position searching begins at: the caller hands over the text from
\* its first `{{` or from its beginning
BeginSearch(in_text) ==
    ({0} \cup {FindString(in_text, <<"{", "{">>, 0)}) \ {npos}

InitText ==
    /\ ModelIdle /\ ParseIdle /\ ForIdle /\ ViewsIdle /\ ExprIdle
    /\ ControllerIdle /\ IfIdle
    /\ tx_in_text \in Texts
    /\ tx_text = <<>>
    /\ tx_data_entries = <<>>
    /\ tx_read = <<>>
    /\ tx_pc = "text"
    /\ tx_element_text = tx_in_text

\* DataViewText view(model, element, in_text, index_begin_search)
ConstructText ==
    /\ tx_pc = "text"
    /\ \E index_begin_search \in BeginSearch(tx_in_text) :
        /\ tx_text' = DataViewText(tx_in_text, index_begin_search).text
        /\ tx_data_entries' = DataViewText(tx_in_text, index_begin_search).data_entries
    /\ tx_read' = [k \in 1..NumGroups(tx_in_text, 1) |-> <<>>]
    /\ tx_pc' = "constructed"
    /\ UNCHANGED <<tx_in_text, tx_element_text>>
    /\ UNCHANGED <<ct_address, ct_value, ct_element, ct_model, ct_call, model_dirty,
                   if_address, if_element, if_display, if_last>>
    /\ UNCHANGED <<mvars, pvars, fvars, dvars, xvars>>

\* The values the groups' reads last gave, after reads that gave reads[k]
\* for the k-th group
LastRead(read, reads) ==
    [k \in 1..Len(read) |->
        IF k \in DOMAIN reads /\ reads[k].ok THEN reads[k].value ELSE read[k]]

\* view.Update(model): the element lives, and receives the text BuildText
\* returns when an entry changed
TextUpdate ==
    /\ tx_pc = "constructed"
    /\ \E reads \in [1..Len(tx_data_entries) -> Reads] :
        /\ tx_data_entries' = UpdateEntries(tx_data_entries, reads)
        /\ tx_element_text' =
              IF UpdateEntries(tx_data_entries, reads) # tx_data_entries
              THEN BuildText(tx_text, UpdateEntries(tx_data_entries, reads))
              ELSE tx_element_text
        /\ tx_read' = LastRead(tx_read, reads)
    /\ UNCHANGED <<tx_in_text, tx_text, tx_pc>>
    /\ UNCHANGED <<ct_address, ct_value, ct_element, ct_model, ct_call, model_dirty,
                   if_address, if_element, if_display, if_last>>
    /\ UNCHANGED <<mvars, pvars, fvars, dvars, xvars>>

NextText == ConstructText \/ TextUpdate

SpecText == InitText /\ [][NextText]_vars

(***************************************************************************)
(* Specification of a DataViewFor over the host data                       *)
(***************************************************************************)
\* d.f.g: the vector fun.magic
A_fg == <<"d", ".", "f", ".", "g">>
\* d.m: the fixed array more_fun
A_m == <<"d", ".", "m">>

\* The addresses data-for is bound to: a vector, a fixed array, a scalar
\* and a name that does not resolve
ForBindings == {A_fg, A_m, A_v, A_q}

\* DataViewFor::DataViewFor on an element whose data-for names binding_name
InitFor ==
    /\ ModelIdle
    /\ ControllerIdle /\ IfIdle /\ TextIdle
    /\ ParseIdle
    /\ ExprIdle
    /\ \E binding_name \in ForBindings : variable_address = ParseAddress(binding_name)
    /\ for_alive = TRUE
    /\ elements = <<>>
    /\ aliases = {}
    /\ children = <<ForElement>>
    /\ last = NoUpdate
    /\ ViewsIdle

\* The host resizes the vector data.fun.magic (new elements are 0)
HostResizeFor ==
    /\ \E n \in 0..MaxFor :
        /\ n # Len(data.f.g)
        /\ data' = [data EXCEPT !.f.g =
                       [k \in 1..n |-> IF k <= Len(data.f.g) THEN data.f.g[k] ELSE 0]]
    /\ op' = NoCall(data')
    /\ UNCHANGED <<variables, status>>
    /\ UNCHANGED <<pvars, xvars, evars>>
    /\ UNCHANGED type_register
    /\ UNCHANGED dvars
    /\ UNCHANGED fvars

\* The view as DataViewFor::Update finds it
ForView == [elements |-> elements, aliases |-> aliases, children |-> children, log |-> <<>>]

\* The view is updated with r, the outcome of DataViewFor::Update
ForUpdateReturns(r) ==
    /\ elements' = r.elements
    /\ aliases' = r.aliases
    /\ children' = r.children
    /\ last' = [called |-> TRUE, resolved |-> r.resolved, size |-> r.size,
                result |-> r.result, elements |-> elements, aliases |-> aliases,
                children |-> children, log |-> r.log]

\* DataViews::Update calls view->Update(model) on the view, which IsValid
CallForUpdate ==
    /\ for_alive
    /\ ForUpdateReturns(ForUpdate(data, variables, variable_address, ForView))
    /\ UNCHANGED <<variable_address, for_alive>>
    /\ UNCHANGED mvars
    /\ UNCHANGED <<pvars, xvars, evars>>
    /\ UNCHANGED type_register
    /\ UNCHANGED dvars

\* The element carrying data-for is removed from the document and destroyed
ForElementDestroyed ==
    /\ for_alive
    /\ for_alive' = FALSE
    /\ children' = RemoveChild(children, ForElement)
    /\ UNCHANGED <<variable_address, elements, aliases, last>>
    /\ UNCHANGED mvars
    /\ UNCHANGED <<pvars, xvars, evars>>
    /\ UNCHANGED type_register
    /\ UNCHANGED dvars

NextFor ==
    \/ HostResizeFor
    \/ CallForUpdate
    \/ ForElementDestroyed

SpecFor == InitFor /\ [][NextFor]_vars

\* DataViewFor::Update comes to element->GetTagName(): the variable is
\* resolved and has more elements than the view has children
ForUsesElement(host, vs, address, num_elements) ==
    /\ IsValid(GetVariableByAddress(vs, host, address))
    /\ VariableSize(host, GetVariableByAddress(vs, host, address)) > num_elements

\* DataViewFor::Update called on the view after its element was destroyed:
\* GetElement() returns nullptr, which the growth branch dereferences; the
\* other paths do not use it
CallForUpdateGone ==
    /\ ~for_alive
    /\ status = "running"
    /\ IF ForUsesElement(data, variables, variable_address, Len(elements))
       THEN /\ status' \in {"crashed", "corrupted"}
            /\ last' = [NoUpdate EXCEPT !.called = TRUE, !.resolved = TRUE]
            /\ UNCHANGED <<elements, aliases, children>>
       ELSE /\ ForUpdateReturns(ForUpdate(data, variables, variable_address, ForView))
            /\ UNCHANGED status
    /\ UNCHANGED <<variable_address, for_alive>>
    /\ UNCHANGED <<data, variables, op>>
    /\ UNCHANGED <<pvars, xvars, evars>>
    /\ UNCHANGED type_register
    /\ UNCHANGED dvars

\* The data-for view with Update called whether or not its element exists,
\* until undefined behaviour ends the run
NextForDirect ==
    \/ status = "running" /\ HostResizeFor
    \/ status = "running" /\ CallForUpdate
    \/ status = "running" /\ ForElementDestroyed
    \/ CallForUpdateGone

SpecForDirect == InitFor /\ [][NextForDirect]_vars

(***************************************************************************)
(* Specification of DataViews: views are added and elements removed        *)
(* between update passes and from inside the Update of a view              *)
(***************************************************************************)
InitViews == ModelIdle /\ ParseIdle /\ ForIdle /\ ViewsIdle /\ ExprIdle /\ ControllerIdle /\ IfIdle /\ TextIdle

\* DataViews::Add: a view made on an existing element
Add ==
    /\ OutsideOrInView
    /\ \E view \in Views :
        /\ ~InUse(view)
        /\ ElementOf(view) \in live
        /\ views_to_add' = Append(views_to_add, view)
    /\ UNCHANGED <<views, views_to_remove, name_view_map, live, dv_pc, dv_i,
                   dirty_variables, dirty_views, running, updated, dv_result>>
    /\ UNCHANGED owed
    /\ UNCHANGED <<mvars, pvars, fvars, xvars, evars>>

\* An element is destroyed, by the host or by a view's Update (not the
\* element of the view running it), and DataViews::OnElementRemove is told
OnElementRemove ==
    /\ OutsideOrInView
    /\ \E element \in live :
        /\ running # <<>> => ElementOf(running[1]) # element
        /\ live' = live \ {element}
        /\ views' = SelectSeq(views, LAMBDA view : ElementOf(view) # element)
        /\ views_to_remove' =
               views_to_remove \o SelectSeq(views, LAMBDA view : ElementOf(view) = element)
    /\ UNCHANGED <<views_to_add, name_view_map, dv_pc, dv_i, dirty_variables,
                   dirty_views, running, updated, dv_result>>
    /\ owed' = {view \in owed : ElementOf(view) \in live'}
    /\ UNCHANGED <<mvars, pvars, fvars, xvars, evars>>

\* An element is made where no view refers to a destroyed one
ElementCreated ==
    /\ OutsideOrInView
    /\ \E element \in Elements \ live :
        /\ \A view \in Views : InUse(view) => ElementOf(view) # element
        /\ live' = live \cup {element}
    /\ UNCHANGED <<views, views_to_add, views_to_remove, name_view_map, dv_pc,
                   dv_i, dirty_variables, dirty_views, running, updated, dv_result>>
    /\ UNCHANGED owed
    /\ UNCHANGED <<mvars, pvars, fvars, xvars, evars>>

\* DataViews::Update is called with the dirty variable names
CallUpdate ==
    /\ dv_pc = "idle"
    /\ dv_pc' = "gather"
    /\ dv_i' = 0
    /\ dv_result' = FALSE
    /\ updated' = <<>>
    /\ \E names \in SUBSET Names : dirty_variables' = names
    /\ UNCHANGED <<views, views_to_add, views_to_remove, name_view_map, live,
                   dirty_views, running>>
    /\ owed' = {}
    /\ UNCHANGED <<mvars, pvars, fvars, xvars, evars>>

\* The head of an iteration: the added views are taken over and registered,
\* the dirty views gathered and their duplicates removed
Gather ==
    /\ dv_pc = "gather"
    /\ name_view_map' = EmplaceAll(name_view_map, views_to_add)
    /\ views' = views \o views_to_add
    /\ views_to_add' = <<>>
    /\ dirty_views' = GatherDirty(EmplaceAll(name_view_map, views_to_add),
                                  views_to_add, dirty_variables)
    /\ updated' = <<>>
    /\ dv_pc' = "update"
    /\ UNCHANGED <<views_to_remove, live, dv_i, dirty_variables, running, dv_result>>
    /\ UNCHANGED owed
    /\ UNCHANGED <<mvars, pvars, fvars, xvars, evars>>

\* dirty_views visited as the sort by address left it
NextByDepth_AddressOrder(seq, k) == k = 1

\* view is where the sort by depth can have put the next view to visit
NextByDepth(seq, k) ==
    \A j \in 1..Len(seq) : GetElementDepth(seq[k]) <= GetElementDepth(seq[j])

\* The next view of the loop over dirty_views: Update is called if it IsValid
VisitView ==
    /\ dv_pc = "update"
    /\ running = <<>>
    /\ \E k \in 1..Len(dirty_views) :
        /\ NextByDepth(dirty_views, k)
        /\ dirty_views' = Without(dirty_views, k)
        /\ IF ViewIsValid(live, dirty_views[k])
           THEN /\ running' = <<dirty_views[k]>>
                /\ updated' = Append(updated, dirty_views[k])
           ELSE UNCHANGED <<running, updated>>
    /\ UNCHANGED <<views, views_to_add, views_to_remove, name_view_map, live,
                   dv_pc, dv_i, dirty_variables, dv_result>>
    /\ owed' = owed \ Range(running')
    /\ UNCHANGED <<mvars, pvars, fvars, xvars, evars>>

\* view->Update(model) returns whether something changed
ViewUpdateReturns ==
    /\ running # <<>>
    /\ running' = <<>>
    /\ \E changed \in BOOLEAN : dv_result' = (dv_result \/ changed)
    /\ UNCHANGED <<views, views_to_add, views_to_remove, name_view_map, live,
                   dv_pc, dv_i, dirty_variables, dirty_views, updated>>
    /\ UNCHANGED owed
    /\ UNCHANGED <<mvars, pvars, fvars, xvars, evars>>

\* The loop condition with the limit one higher
LoopContinues_OneMore(i, to_add) == to_add # <<>> /\ i < UpdateLimit + 1

\* The loop condition i == 0 || (!views_to_add.empty() && i < 10) as tested
\* after i++, when i is no longer 0
LoopContinues(i, to_add) == to_add # <<>> /\ i < UpdateLimit

\* The end of an iteration: the views marked for destruction are destroyed,
\* and the loop goes on while views were added and the limit is not reached
EndIteration ==
    /\ dv_pc = "update"
    /\ running = <<>>
    /\ dirty_views = <<>>
    /\ name_view_map' = EraseViews(name_view_map, views_to_remove)
    /\ views_to_remove' = <<>>
    /\ dv_i' = dv_i + 1
    /\ IF LoopContinues(dv_i + 1, views_to_add)
       THEN dv_pc' = "gather" /\ UNCHANGED dirty_variables
       ELSE dv_pc' = "idle" /\ dirty_variables' = {}
    /\ UNCHANGED <<views, views_to_add, live, dirty_views, running, updated, dv_result>>
    /\ UNCHANGED owed
    /\ UNCHANGED <<mvars, pvars, fvars, xvars, evars>>

\* DataModel::DirtyVariable(name) called while a view's Update runs, by the
\* view, a transform or a controller: the name joins the set the running
\* DataViews::Update refers to.  Update is then owed to the views registered
\* under the name, but for the running one and those still to be visited
DirtyVariable ==
    /\ running # <<>>
    /\ \E name \in Names :
        /\ dirty_variables' = dirty_variables \cup {name}
        /\ owed' = owed \cup
               {view \in Range(views) :
                   /\ name_view_map[<<name, view>>] > 0
                   /\ view \notin Range(dirty_views)
                   /\ view \notin Range(running)
                   /\ ViewIsValid(live, view)}
    /\ UNCHANGED <<views, views_to_add, views_to_remove, name_view_map, live,
                   dv_pc, dv_i, dirty_views, running, updated, dv_result>>
    /\ UNCHANGED <<mvars, pvars, fvars, xvars, evars>>

NextViews ==
    \/ Add
    \/ OnElementRemove
    \/ ElementCreated
    \/ CallUpdate
    \/ Gather
    \/ VisitView
    \/ ViewUpdateReturns
    \/ EndIteration

SpecViews == InitViews /\ [][NextViews]_vars

\* DataViews with names being dirtied while a call of Update runs
NextViewsDirty ==
    \/ Add
    \/ OnElementRemove
    \/ ElementCreated
    \/ CallUpdate
    \/ Gather
    \/ VisitView
    \/ ViewUpdateReturns
    \/ EndIteration
    \/ DirtyVariable

SpecViewsDirty == InitViews /\ [][NextViewsDirty]_vars

\* DataViews::Update runs on once called, and a view's Update returns
SpecViewsFair ==
    /\ SpecViews
    /\ WF_vars(Gather)
    /\ WF_vars(VisitView)
    /\ WF_vars(ViewUpdateReturns)
    /\ WF_vars(EndIteration)

(***************************************************************************)
(* The address grammar of the specification, as a character automaton:     *)
(*   address := segment ('.' segment)*   segment := name index*            *)
(*   index := '[' digits ']'                                               *)
(* a name being one or more characters other than '.', '[' and ']'.        *)
(***************************************************************************)
IsNameChar(c) == c \notin {".", "[", "]"}

GrammarStep(q, c) ==
    CASE q = "segment" -> IF IsNameChar(c) THEN "name" ELSE "reject"
      [] q = "name"    -> IF IsNameChar(c) THEN "name"
                          ELSE IF c = "." THEN "segment"
                          ELSE IF c = "[" THEN "open" ELSE "reject"
      [] q = "open"    -> IF c \in Digits THEN "digits" ELSE "reject"
      [] q = "digits"  -> IF c \in Digits THEN "digits"
                          ELSE IF c = "]" THEN "closed" ELSE "reject"
      [] q = "closed"  -> IF c = "[" THEN "open"
                          ELSE IF c = "." THEN "segment" ELSE "reject"
      [] OTHER         -> "reject"

RECURSIVE GrammarRun(_, _, _)
GrammarRun(s, i, q) ==
    IF i > Len(s) THEN q ELSE GrammarRun(s, i + 1, GrammarStep(q, s[i]))

MatchesGrammar(s) == GrammarRun(s, 1, "segment") \in {"name", "closed"}

\* The entries the grammar assigns to a matching string, read left to right:
\* cur is the name or digit string being read
RECURSIVE GrammarEntries(_, _, _, _)
GrammarEntries(s, i, cur, acc) ==
    IF i > Len(s)
    THEN IF cur # <<>> THEN Append(acc, NameEntry(cur)) ELSE acc
    ELSE LET c == s[i] IN
         IF c = "]" THEN GrammarEntries(s, i + 1, <<>>,
                             Append(acc, IndexEntry(DecimalValue(cur, 1, Len(cur)))))
         ELSE IF c \in {".", "["}
         THEN GrammarEntries(s, i + 1, <<>>,
                             IF i > 1 /\ s[i - 1] = "]" THEN acc ELSE Append(acc, NameEntry(cur)))
         ELSE GrammarEntries(s, i + 1, Append(cur, c), acc)

(***************************************************************************)
(* Specification of ParseAddress: one call on an arbitrary bounded string   *)
(***************************************************************************)
Alphabet == {"a", ".", "[", "]", "1", "-"}

\* a.b[2].c, the example of the address grammar
ExampleAddress == <<"a", ".", "b", "[", "2", "]", ".", "c">>

AddressStrings ==
    UNION {[1..n -> Alphabet] : n \in 0..MaxLen} \cup {ExampleAddress}

InitParse ==
    /\ ControllerIdle /\ IfIdle /\ TextIdle
    /\ pa_str \in AddressStrings
    /\ pa_result = <<>>
    /\ pa_pc = "call"
    /\ ModelIdle
    /\ ForIdle
    /\ ViewsIdle
    /\ ExprIdle

CallParseAddress ==
    /\ pa_pc = "call"
    /\ pa_result' = ParseAddress(pa_str)
    /\ pa_pc' = "returned"
    /\ UNCHANGED pa_str
    /\ UNCHANGED mvars
    /\ UNCHANGED fvars
    /\ UNCHANGED dvars
    /\ UNCHANGED <<xvars, evars>>

NextParse == CallParseAddress

SpecParse == InitParse /\ [][NextParse]_vars

(***************************************************************************)
(* Specification of a data expression: ParserContext(expression), then     *)
(* Parse(), then Execute(), as TestParser does                             *)
(***************************************************************************)

\* tokens, separated by single blanks
RECURSIVE Join(_)
Join(tokens) ==
    IF Len(tokens) = 1 THEN tokens[1]
    ELSE tokens[1] \o <<" ">> \o Join(Tail(tokens))

\* tokens with nothing between them
RECURSIVE Concat(_)
Concat(tokens) ==
    IF tokens = <<>> THEN <<>> ELSE tokens[1] \o Concat(Tail(tokens))

Parenthesized(expression) == <<"(">> \o expression \o <<")">>

Quoted(text) == <<"'">> \o text \o <<"'">>

\* Operator tokens
AdditiveOperators == {<<"+">>, <<"-">>}
MultiplicativeOperators == {<<"*">>, <<"/">>}
ArithmeticOperators == AdditiveOperators \cup MultiplicativeOperators
ComparisonOperators ==
    {<<"=", "=">>, <<"!", "=">>, <<"<">>, <<"<", "=">>, <<">">>, <<">", "=">>}

\* Operand tokens
SmallNumbers == {<<"0">>, <<"1">>, <<"2">>}
NumberLiterals == {<<"1">>, <<"2">>, <<"5">>, <<"0", ".", "5">>, <<"-", "2">>}
BooleanLiterals == {<<"t", "r", "u", "e">>, <<"f", "a", "l", "s", "e">>}

\* a rel b add c, and a add b rel c
ComparisonOfSum(a, rel, b, add, c) == Join(<<a, rel, b, add, c>>)
SumInComparison(a, add, b, rel, c) == Join(<<a, add, b, rel, c>>)

ComparisonExpressions ==
    {ComparisonOfSum(a, rel, b, add, c) :
        a \in SmallNumbers, rel \in ComparisonOperators, b \in SmallNumbers,
        add \in AdditiveOperators, c \in SmallNumbers}
    \cup {SumInComparison(a, add, b, rel, c) :
        a \in SmallNumbers, add \in AdditiveOperators, b \in SmallNumbers,
        rel \in ComparisonOperators, c \in SmallNumbers}

\* a || b && c, a && b || c, and a && b == c
OrOfAnd(a, b, c) == Join(<<a, <<"|", "|">>, b, <<"&", "&">>, c>>)
AndThenOr(a, b, c) == Join(<<a, <<"&", "&">>, b, <<"|", "|">>, c>>)
AndOfEqual(a, b, c) == Join(<<a, <<"&", "&">>, b, <<"=", "=">>, c>>)

LogicalExpressions ==
    {OrOfAnd(a, b, c) : a \in BooleanLiterals, b \in BooleanLiterals, c \in BooleanLiterals}
    \cup {AndThenOr(a, b, c) : a \in BooleanLiterals, b \in BooleanLiterals, c \in BooleanLiterals}
    \cup {AndOfEqual(a, b, c) : a \in BooleanLiterals, b \in BooleanLiterals, c \in BooleanLiterals}

\* x op1 y op2 z without parentheses (unspaced, as "5+(1+2)" is), with the
\* right pair parenthesized, and with the left pair parenthesized
Flat(x, op1, y, op2, z) == Concat(<<x, op1, y, op2, z>>)
RightGrouped(x, op1, y, op2, z) == Concat(<<x, op1, Parenthesized(Concat(<<y, op2, z>>))>>)
LeftGrouped(x, op1, y, op2, z) == Concat(<<Parenthesized(Concat(<<x, op1, y>>)), op2, z>>)

ArithmeticExpressions ==
    UNION {{Flat(x, op1, y, op2, z), RightGrouped(x, op1, y, op2, z),
            LeftGrouped(x, op1, y, op2, z)} :
           x \in NumberLiterals, op1 \in ArithmeticOperators, y \in NumberLiterals,
           op2 \in ArithmeticOperators, z \in NumberLiterals}

\* Conditions and branches of a ternary: literals, binary operators, nested
\* ternaries and transform calls
Conditions ==
    {<<"t", "r", "u", "e">>, <<"f", "a", "l", "s", "e">>, <<"0">>, <<"2">>,
     <<"1", "=", "=", "1">>, <<"1", "=", "=", "2">>, <<"!", "0">>,
     <<"1", " ", "<", " ", "2", " ", "&", "&", " ", "0">>}

Branches ==
    {Quoted(<<"y", "e", "s">>), Quoted(<<"n", "o">>), <<"1", "+", "2">>,
     <<"2", "*", "5", " ", "-", " ", "1">>,
     Join(<<<<"0">>, <<"?">>, Quoted(<<"p">>), <<":">>, Quoted(<<"q">>)>>),
     Join(<<<<"1">>, <<"?">>, <<"5">>, <<":">>, <<"2">>>>),
     Join(<<Quoted(<<"x">>), <<"|">>, <<"u", "p">>>>),
     Concat(<<<<"5">>, <<" ", "|", " ">>, <<"f", "(", "1", ",", " ", "2", "+", "2", ")">>>>)}

TernaryOf(c, a, b) == Join(<<c, <<"?">>, a, <<":">>, b>>)

TernaryExpressions ==
    {TernaryOf(c, a, b) : c \in Conditions, a \in Branches, b \in Branches}

Expressions ==
    ComparisonExpressions \cup LogicalExpressions \cup ArithmeticExpressions
        \cup TernaryExpressions

\* ParserContext(expression).Parse().Execute(), given the parsed context
EvaluateParsed(context) == ExecuteFrom(context, Execution(context))

Evaluate(expression) == EvaluateParsed(Parse(ParserContext(expression)))

InitExpr ==
    /\ ModelIdle /\ ParseIdle /\ ForIdle /\ ViewsIdle /\ ControllerIdle /\ IfIdle /\ TextIdle
    /\ ex_context \in {ParserContext(expression) : expression \in Expressions}
    /\ ex_execution = ExecutionContext
    /\ ex_result = <<>>
    /\ ex_pc = "constructed"
    /\ ex_ip = 0
    /\ ex_count = 0

\* ParserContext::Parse()
CallParse ==
    /\ ex_pc = "constructed"
    /\ ex_context' = Parse(ex_context)
    /\ ex_pc' = "parsed"
    /\ UNCHANGED <<ex_execution, ex_result, ex_ip, ex_count>>
    /\ UNCHANGED <<mvars, pvars, fvars, dvars, evars>>

\* ParserContext::Execute()
CallExecute ==
    /\ ex_pc = "parsed"
    /\ ex_execution' = Execution(ex_context)
    /\ ex_result' = ExecuteFrom(ex_context, Execution(ex_context))
    /\ ex_pc' = "executed"
    /\ ex_count' = ex_count + 1
    /\ UNCHANGED <<ex_context, ex_ip>>
    /\ UNCHANGED <<mvars, pvars, fvars, dvars, evars>>

NextExpr == CallParse \/ CallExecute

SpecExpr == InitExpr /\ [][NextExpr]_vars

(***************************************************************************)
(* Specification of a data expression whose runs are followed instruction  *)
(* by instruction: Parse(), then Execute() any number of times, each run   *)
(* one step per pass of the loop of ExecutionContext::Run                  *)
(***************************************************************************)

\* Calls of Execute followed on one expression
MaxEvaluations == 2

\* Operands of mixed types
MixedOperands ==
    {Quoted(<<"a">>), Quoted(<<"1">>), Quoted(<<" ">>), <<"1">>, <<"2">>,
     <<"1", ".", "5">>, <<"t", "r", "u", "e">>, <<"f", "a", "l", "s", "e">>}

StringOrFloatOperators == {<<"+">>, <<"=", "=">>, <<"!", "=">>}

HelloWorld ==
    Join(<<Quoted(<<"h", "e", "l", "l", "o">>), <<"+">>, Quoted(<<" ">>), <<"+">>,
           Quoted(<<"w", "o", "r", "l", "d">>)>>)

\* x op y over operands of mixed types, and sums of three of them
MixedExpressions ==
    {Join(<<x, operator, y>>) :
        x \in MixedOperands, operator \in StringOrFloatOperators, y \in MixedOperands}
    \cup {Join(<<x, <<"+">>, y, <<"+">>, z>>) :
        x \in {Quoted(<<"a">>), <<"1">>, <<"2">>},
        y \in {Quoted(<<"a">>), <<"1">>, <<"2">>},
        z \in {Quoted(<<"a">>), <<"1">>, <<"2">>}}
    \cup {HelloWorld}

RelationalOperators == {<<"<">>, <<"<", "=">>, <<">">>, <<">", "=">>}

\* x rel y with at least one textual operand
TextualComparisons ==
    {Join(<<x, rel, y>>) :
        x \in {Quoted(<<"a">>), Quoted(<<"b">>), Quoted(<<"a", "b">>), Quoted(<<"1", "0">>),
               Quoted(<<"9">>)},
        rel \in RelationalOperators,
        y \in {Quoted(<<"a">>), Quoted(<<"b">>), Quoted(<<"1", "0">>), Quoted(<<"9">>),
               <<"9">>, <<"1", "0">>}}

\* The operands and the arguments of transform calls
Piped ==
    {Quoted(<<"h", "i">>), <<"1", "+", "2">>, <<"5">>}

PassedArguments ==
    {Quoted(<<"y", "e", "s">>), <<"9", "*", "2">>,
     <<"5", "+", "1", "2", "=", "=", "1", "7", " ", "?", " ", "'", "y", "e", "s", "'",
       ":", "'", "n", "o", "'">>,
     <<"2", " ", "|", " ", "g", "(", "1", ")">>}

\* The argument lists of up to two arguments
ArgumentLists ==
    {<<>>} \cup {<<a>> : a \in PassedArguments}
        \cup {<<a, b>> : a \in PassedArguments, b \in PassedArguments}

\* a1, ..., an
RECURSIVE CommaSeparated(_)
CommaSeparated(arguments) ==
    IF arguments = <<>> THEN <<>>
    ELSE IF Len(arguments) = 1 THEN arguments[1]
    ELSE arguments[1] \o <<",", " ">> \o CommaSeparated(Tail(arguments))

\* expr | name(a1, ..., an)
CallOf(expr, name, arguments) ==
    Concat(<<expr, <<" ", "|", " ">>, name, Parenthesized(CommaSeparated(arguments))>>)

\* expr | name
BareCallOf(expr, name) == Concat(<<expr, <<" ", "|", " ">>, name>>)

\* 'hello world' | uppercase(5 + 12 == 17 ? 'yes' : 'no', 9*2), the call of
\* TestParser
TestParserCall ==
    Quoted(<<"h", "e", "l", "l", "o", " ", "w", "o", "r", "l", "d">>)
    \o <<" ", "|", " ", "u", "p", "p", "e", "r", "c", "a", "s", "e", "(">>
    \o <<"5", " ", "+", " ", "1", "2", " ", "=", "=", " ", "1", "7", " ", "?", " ">>
    \o Quoted(<<"y", "e", "s">>) \o <<" ", ":", " ">> \o Quoted(<<"n", "o">>)
    \o <<",", " ", "9", "*", "2", ")">>

TransformCalls ==
    {CallOf(expr, <<"u", "p">>, arguments) : expr \in Piped, arguments \in ArgumentLists}
    \cup {BareCallOf(expr, <<"u", "p">>) : expr \in Piped}
    \cup {TestParserCall}

\* Expressions that compile, none ending in a variable name (a name goes on
\* over spaces, digits and brackets): the malformed expressions below are
\* made from them
WellFormed ==
    {<<"1">>, <<"1", "+", "2">>, Parenthesized(<<"1", " ", "+", " ", "2">>),
     Quoted(<<"a">>), <<"1", " ", "?", " ", "2", " ", ":", " ", "3">>,
     <<"5", " ", "|", " ", "f", "(", "1", ")">>, HelloWorld}

\* The binary operators of the language
BinaryOperators ==
    {<<"+">>, <<"-">>, <<"*">>, <<"/">>, <<"=", "=">>, <<"!", "=">>, <<"<">>, <<"<", "=">>,
     <<">">>, <<">", "=">>, <<"&", "&">>, <<"|", "|">>}

\* A character that continues nothing follows the expression
TrailingCharacter ==
    {expression \o <<" ">> \o c :
        expression \in WellFormed, c \in {<<"2">>, <<"x">>, <<",">>, <<":">>, <<"#">>}}

\* A '(' without its ')', a ')' without its '(', a string without its
\* closing quote
Unmatched ==
    {<<"(">> \o expression : expression \in WellFormed}
    \cup {<<"(">> \o Parenthesized(expression) : expression \in WellFormed}
    \cup {expression \o <<")">> : expression \in WellFormed}
    \cup {expression \o <<" ", "+", " ", "'", "a">> : expression \in WellFormed}
    \cup {<<"'", "a">>, <<"'", "a", "'", " ", "+", " ", "(", "2", "*">>}

\* A ternary without its ':'
TernaryWithoutElse ==
    {expression \o <<" ", "?", " ", "1">> : expression \in WellFormed}

\* An operator without its right or left operand, two operators in a row,
\* the empty string, empty parentheses, a '!' alone
MissingOperand ==
    {expression \o <<" ">> \o operator :
        expression \in WellFormed, operator \in BinaryOperators}
    \cup {operator \o <<" ">> \o expression :
        expression \in WellFormed, operator \in BinaryOperators \ {<<"-">>}}
    \cup {<<>>, <<"(", ")">>, <<"!">>, <<"1", "+", "*", "2">>, <<"1", " ", "?", " ", ":", " ", "2">>}

\* An argument list that does not end
UnterminatedArguments ==
    {expression \o <<" ", "|", " ", "f">> \o rest :
        expression \in WellFormed,
        rest \in {<<"(">>, <<"(", "1">>, <<"(", "1", ",">>, <<"(", "1", ",", " ", "2">>}}

\* A single '=' or '&' where '==' or '&&' is meant
SingleCharacterOperator ==
    {expression \o <<" ">> \o operator \o <<" ", "1">> :
        expression \in WellFormed, operator \in {<<"=">>, <<"&">>}}

\* Expressions that do not compile: the empty string, a missing operand, an
\* unmatched parenthesis or quote, a trailing character, a ternary without
\* ':', a single '=' or '&', an unterminated argument list
MalformedExpressions ==
    TrailingCharacter \cup Unmatched \cup TernaryWithoutElse \cup MissingOperand
        \cup UnterminatedArguments \cup SingleCharacterOperator

\* Expressions over the variables of the bound data: d.v (data.valid), d.f.x
\* (data.fun.x) and d.f.i (data.fun.i)
VariableExpressions ==
    {<<"d", ".", "v">>, <<"d", ".", "f", ".", "x">>, <<"d", ".", "f", ".", "i">>,
     <<"d", ".", "f", ".", "i", " ", "+", " ", "1">>,
     <<"d", ".", "v", " ", "?", " ", "1", " ", ":", " ", "2">>}

\* Expressions a machine with jumps would run in part only: a ternary, an
\* && and an || whose condition or left operand is 0 or 1
BothSides ==
    {Join(<<c, <<"?">>, Quoted(<<"a">>), <<":">>, Quoted(<<"b">>)>>) : c \in {<<"0">>, <<"1">>}}
    \cup {Join(<<c, operator, Quoted(<<"b">>)>>) :
            c \in {<<"0">>, <<"1">>}, operator \in {<<"&", "&">>, <<"|", "|">>}}

RunExpressions ==
    MixedExpressions \cup TextualComparisons \cup TransformCalls \cup MalformedExpressions
        \cup VariableExpressions \cup WellFormed \cup BothSides

InitRun ==
    /\ ModelIdle /\ ParseIdle /\ ForIdle /\ ViewsIdle /\ ControllerIdle /\ IfIdle /\ TextIdle
    /\ ex_context \in {ParserContext(expression) : expression \in RunExpressions}
    /\ ex_execution = ExecutionContext
    /\ ex_result = <<>>
    /\ ex_pc = "constructed"
    /\ ex_ip = 0
    /\ ex_count = 0

\* As Runs, but the program is run whatever Parse reported
Runs_Always(context) == context.parse_error \in BOOLEAN

\* Whether ParserContext::Execute() runs the program at all
Runs(context) == ~context.parse_error

\* ParserContext::Execute() after a parse error: String(), nothing is run
ExecuteAfterError ==
    /\ ex_pc \in {"parsed", "executed"}
    /\ ex_count < MaxEvaluations
    /\ ~Runs(ex_context)
    /\ ex_result' = ExecuteFrom(ex_context, ex_execution)
    /\ ex_pc' = "executed"
    /\ ex_count' = ex_count + 1
    /\ UNCHANGED <<ex_context, ex_execution, ex_ip>>
    /\ UNCHANGED <<mvars, pvars, fvars, dvars, evars>>

\* ParserContext::Execute(): ExecutionContext execution(program) and the
\* call of Run
BeginRun ==
    /\ ex_pc \in {"parsed", "executed"}
    /\ ex_count < MaxEvaluations
    /\ Runs(ex_context)
    /\ ex_execution' = ExecutionContext
    /\ ex_ip' = 0
    /\ ex_pc' = "running"
    /\ ex_count' = ex_count + 1
    /\ UNCHANGED <<ex_context, ex_result>>
    /\ UNCHANGED <<mvars, pvars, fvars, dvars, evars>>

\* The instruction the loop of Run executes next
Current == ex_context.program[ex_ip + 1]

\* The loop of Run going on two instructions further
NextInstruction_Skipping(i) == i + 2

\* The i++ of the loop of Run: the index of the instruction executed next
NextInstruction(i) == i + 1

\* One pass of the loop of ExecutionContext::Run
Step ==
    /\ ex_pc = "running"
    /\ ex_ip < Len(ex_context.program)
    /\ ex_execution.success
    /\ ex_execution' = Execute(ex_execution, Current.instruction, Current.data)
    /\ ex_ip' = NextInstruction(ex_ip)
    /\ UNCHANGED <<ex_context, ex_result, ex_pc, ex_count>>
    /\ UNCHANGED <<mvars, pvars, fvars, dvars, evars>>

\* Run returns and ParserContext::Execute() returns Result(), or String()
\* after a failed run
EndRun ==
    /\ ex_pc = "running"
    /\ ex_ip = Len(ex_context.program) \/ ~ex_execution.success
    /\ ex_result' = ExecuteFrom(ex_context, ex_execution)
    /\ ex_pc' = "executed"
    /\ UNCHANGED <<ex_context, ex_execution, ex_ip, ex_count>>
    /\ UNCHANGED <<mvars, pvars, fvars, dvars, evars>>

NextRun == CallParse \/ ExecuteAfterError \/ BeginRun \/ Step \/ EndRun

SpecRun == InitRun /\ [][NextRun]_vars

\* The same, while the host changes the bound data between and during the
\* evaluations
NextRunModel == NextRun \/ HostWriteValid

SpecRunModel == InitRun /\ [][NextRunModel]_vars

\* The longest expression of ShortExpressions
MaxExpression == 4

\* The characters the compiler answers with Push, Pop or Arguments, and what
\* they stand between: an operand, an operator, the ternary, a transform
\* call and parentheses
StackCharacters == {"1", "+", "?", ":", "|", "f", "(", ")"}

\* Every string of up to MaxExpression of these characters, well-formed or
\* not
ShortExpressions == UNION {[1..n -> StackCharacters] : n \in 0..MaxExpression}

\* Every way a transform call may go on after its name: up to three of the
\* characters of an argument list
CallTails ==
    {<<"1", "|", "f">> \o tail :
        tail \in UNION {[1..n -> {"1", "(", ")", ",", "|"}] : n \in 0..3}}

\* The longest body of LiteralInputs
MaxLiteral == 4

\* An opening quote and then every string of up to MaxLiteral letters,
\* backslashes and quotes: closed, open and with trailing characters
LiteralInputs ==
    {<<"'">> \o body :
        body \in UNION {[1..n -> {"a", "\\", "'"}] : n \in 0..MaxLiteral}}

AnyExpressions == RunExpressions \cup ShortExpressions \cup CallTails \cup LiteralInputs

\* Parse and Execute over every short input
InitAnyInput ==
    /\ ModelIdle /\ ParseIdle /\ ForIdle /\ ViewsIdle /\ ControllerIdle /\ IfIdle /\ TextIdle
    /\ ex_context \in {ParserContext(expression) : expression \in AnyExpressions}
    /\ ex_execution = ExecutionContext
    /\ ex_result = <<>>
    /\ ex_pc = "constructed"
    /\ ex_ip = 0
    /\ ex_count = 0

SpecAnyInput == InitAnyInput /\ [][NextRun]_vars

(***************************************************************************)
(* Claims about ParseAddress                                               *)
(***************************************************************************)
\* C2 (as claimed): ParseAddress returns the empty Address for every string
\* that does not match the address grammar; it never returns a partial
\* address.
C2_MalformedYieldsEmpty ==
    (pa_pc = "returned" /\ ~MatchesGrammar(pa_str)) => pa_result = <<>>

EntryWellFormed(e) ==
    \/ e.name # <<>> /\ e.index = -1
    \/ e.name = <<>> /\ e.index >= 0

\* C3: for every string that matches the address grammar, ParseAddress
\* returns per segment, in order, one name entry followed by the segment's
\* indices in order; every entry is a non-empty name without index or a
\* non-negative index without name.
C3_WellFormedParsesToEntries ==
    (pa_pc = "returned" /\ MatchesGrammar(pa_str)) =>
        /\ pa_result = GrammarEntries(pa_str, 1, <<>>, <<>>)
        /\ pa_result # <<>>
        /\ \A k \in 1..Len(pa_result) : EntryWellFormed(pa_result[k])

\* C3 witness: a.b[2].c has been parsed to [name a, name b, index 2, name c]
C3_Witness ==
    /\ pa_pc = "returned"
    /\ pa_str = ExampleAddress
    /\ pa_result = <<NameEntry(<<"a">>), NameEntry(<<"b">>), IndexEntry(2), NameEntry(<<"c">>)>>

(***************************************************************************)
(* Claims about the reflection layer and the Model                         *)
(***************************************************************************)
\* The host field an address names, read directly from the host data as
\* TestDataVariable does for its expected results (data.more_fun[1].i, ...):
\* whether the field exists, its C++ type, and its value
HostField(exists, type, value) ==
    [exists |-> exists, type |-> type,
     value |-> IF exists THEN Variant(type, value) ELSE EmptyVariant]

DirectRead(host, address_str) ==
    CASE address_str = A_v -> HostField(TRUE, "bool", host.v)
      [] address_str = A_fx -> HostField(TRUE, "String", host.f.x)
      [] address_str = A_fg0 ->
            HostField(Len(host.f.g) > 0, "int", IF Len(host.f.g) > 0 THEN host.f.g[1] ELSE 0)
      [] address_str = A_fg1 ->
            HostField(Len(host.f.g) > 1, "int", IF Len(host.f.g) > 1 THEN host.f.g[2] ELSE 0)
      [] address_str = A_fg9 ->
            HostField(Len(host.f.g) > 9, "int", IF Len(host.f.g) > 9 THEN host.f.g[10] ELSE 0)
      [] address_str = A_m1i -> HostField(TRUE, "int", host.m[2].i)
      [] OTHER -> HostField(FALSE, "none", 0)

\* Whether the dynamic value converts to the type
Convertible(variant, T) ==
    T # "none" /\ GetInto(variant, T, ValueOf(Variant(T, ValueOf(EmptyVariant)))).ok

\* C1 (as claimed): an array entry whose index is not in 0 <= index < Size
\* resolves to nothing, so a Variable that GetVariable returns never points
\* outside the bound data.
C1_HandleInsideBoundData ==
    (op.kind # "none" /\ IsValid(op.variable)) => InHost(op.before, op.variable.ptr.path)

\* C4: for every address that resolves against the host graph to a scalar,
\* GetValue returns the current value of the host field, whatever the host
\* did to the data before the call.
C4_GetValueReadsHostField ==
    (op.kind = "GetValue" /\ DirectRead(data, op.address_str).exists) =>
        /\ status = "running"
        /\ op.ret = DirectRead(data, op.address_str).value

\* C4 witness: fun.magic[1], which exists only since the vector has grown,
\* has been read
C4_Witness ==
    /\ op.kind = "GetValue"
    /\ op.address_str = A_fg1
    /\ Len(data.f.g) >= 2
    /\ op.ret = Variant("int", data.f.g[2])

\* The value a successful SetValue of the last call has to store
C5_Stored ==
    GetInto(op.arg, DirectRead(op.before, op.address_str).type,
            ValueOf(DirectRead(op.before, op.address_str).value)).dest

\* C5: for every address resolving to a scalar and every dynamic value
\* convertible to the scalar's type, SetValue returns true, stores the
\* converted value in the host field, and a GetValue at the same address
\* returns the written value.
C5_SetValueRoundTrip ==
    (/\ op.kind = "SetValue"
     /\ DirectRead(op.before, op.address_str).exists
     /\ Convertible(op.arg, DirectRead(op.before, op.address_str).type)) =>
        /\ op.ok
        /\ status = "running"
        /\ DirectRead(data, op.address_str).value =
               Variant(DirectRead(op.before, op.address_str).type, C5_Stored)
        /\ ModelGetValue(variables, data, op.address_str).result =
               Variant(DirectRead(op.before, op.address_str).type, C5_Stored)
        /\ (op.arg.type = DirectRead(op.before, op.address_str).type =>
               ModelGetValue(variables, data, op.address_str).result = op.arg)

\* C5 witness: SetValue("more_fun[1].i", String "19") succeeded and the int
\* field holds 19
C5_Witness ==
    /\ op.kind = "SetValue"
    /\ op.address_str = A_m1i
    /\ op.arg = Variant("String", <<"1", "9">>)
    /\ op.ok
    /\ data.m[2].i = 19
    /\ op.before.m[2].i = 99

\* C6: a Set with a value that cannot be converted to the scalar's type
\* reports failure and leaves the target field and all other host data
\* unchanged.
C6_FailedSetChangesNothing ==
    (/\ op.kind = "SetValue"
     /\ DirectRead(op.before, op.address_str).exists
     /\ ~Convertible(op.arg, DirectRead(op.before, op.address_str).type)) =>
        /\ ~op.ok
        /\ data = op.before
        /\ status = "running"

\* C6 witness: SetValue("more_fun[1].i", a 2D vector) has failed
C6_Witness ==
    /\ op.kind = "SetValue"
    /\ op.address_str = A_m1i
    /\ op.arg.type = "Vector2f"
    /\ ~op.ok


(***************************************************************************)
(* Claims about DataViewFor::Update                                        *)
(***************************************************************************)
\* What the bound variable is when Update is called
ForVariable == GetVariableByAddress(variables, data, variable_address)
ForResolved == IsValid(ForVariable)
\* The bound array's current Size()
ForSize == VariableSize(data, ForVariable)

\* The events of one kind in a log, in order
EventsOf(log, what) == SelectSeq(log, LAMBDA ev : ev.what = what)

\* The place of the only event of a kind about an element, 0 if none
PlaceOf(log, what, element) ==
    IF \E k \in 1..Len(log) : log[k].what = what /\ log[k].element = element
    THEN CHOOSE k \in 1..Len(log) : log[k].what = what /\ log[k].element = element
    ELSE 0

\* C7: after every DataViewFor::Update that resolved its bound variable, the
\* view's child list has as many elements as the bound array's current
\* Size(), none of them null, whatever growths and shrinks came between
\* updates, a shrink to 0 included.
C7_ChildCountIsSize ==
    [][(CallForUpdate /\ ForResolved) =>
           /\ Len(elements') = ForSize
           /\ \A k \in 1..Len(elements') : elements'[k] # NullElement]_vars

\* An update that found 3 children and an array of length 0 left no child
C7_Witness ==
    /\ last.called /\ last.resolved
    /\ Len(last.elements) = 3
    /\ last.size = 0
    /\ elements = <<>>

\* The update from n children to a longer array: exactly the children for
\* the indices n..m-1 are instanced, in ascending order, each with its alias
\* registered before its template is expanded; what existed is as it was
GrowthDone(n, m) ==
    /\ Len(elements') = m
    /\ SubSeq(elements', 1, n) = elements
    /\ Len(EventsOf(last'.log, "InstanceElement")) = m - n
    /\ Len(last'.log) = 4 * (m - n)
    /\ \A k \in (n + 1)..m :
        /\ EventsOf(last'.log, "InstanceElement")[k - n] =
               Event("InstanceElement", elements'[k], k - 1)
        /\ \A j \in 1..Len(children) : children[j] # elements'[k]
        /\ \A j \in (n + 1)..m : j # k => elements'[j] # elements'[k]
        /\ {a \in aliases' : a.element = elements'[k]} =
               {[element |-> elements'[k], name |-> alias_name,
                 address |-> Append(variable_address, IndexEntry(k - 1))]}
        /\ PlaceOf(last'.log, "InsertAlias", elements'[k]) > 0
        /\ PlaceOf(last'.log, "InsertAlias", elements'[k]) <
               PlaceOf(last'.log, "SetInnerRML", elements'[k])
    /\ {a \in aliases' : \E k \in 1..n : a.element = elements[k]} = aliases
    /\ SelectSeq(children', LAMBDA e : \A k \in (n + 1)..m : e # elements'[k]) = children

\* C8: when the bound array has grown from n to m > n since the last update,
\* Update instances exactly m - n children, one per new index n..m-1 in
\* ascending order, registering for each, before its content template is
\* expanded, the alias from the loop variable name to bound address + index;
\* the n existing children and their aliases are not touched.
C8_GrowthInstancesTrailingChildren ==
    [][(CallForUpdate /\ ForResolved /\ ForSize > Len(elements)) =>
           GrowthDone(Len(elements), ForSize)]_vars

\* An update that found 3 children and an array of length 5 made the
\* children and aliases for the indices 3 and 4
C8_Witness ==
    /\ last.called /\ last.resolved
    /\ Len(last.elements) = 3
    /\ last.size = 5
    /\ Len(elements) = 5
    /\ \A i \in {3, 4} :
        [element |-> elements[i + 1], name |-> alias_name,
         address |-> Append(variable_address, IndexEntry(i))] \in aliases

\* The update from n children to a shorter array: exactly the trailing
\* children m..n-1 lose their aliases and are removed; the first m children,
\* their aliases and their order are as they were
ShrinkDone(n, m) ==
    /\ elements' = SubSeq(elements, 1, m)
    /\ aliases' = {a \in aliases : \E k \in 1..m : a.element = elements[k]}
    /\ children' = SelectSeq(children, LAMBDA e : \A k \in (m + 1)..n : e # elements[k])
    /\ Len(last'.log) = 2 * (n - m)
    /\ \A k \in (m + 1)..n :
        /\ PlaceOf(last'.log, "EraseAliases", elements[k]) > 0
        /\ PlaceOf(last'.log, "RemoveChild", elements[k]) > 0

\* C9: when the bound array has shrunk from n to m < n since the last
\* update, Update erases the aliases of and destroys exactly the n - m
\* trailing children (indices m..n-1) and leaves the first m children, their
\* aliases and their order unchanged.
C9_ShrinkDestroysTrailingChildren ==
    [][(CallForUpdate /\ ForResolved /\ ForSize < Len(elements)) =>
           ShrinkDone(Len(elements), ForSize)]_vars

\* An update that found 5 children and an array of length 2 kept the first
\* two children with their aliases and removed the other three
C9_Witness ==
    /\ last.called /\ last.resolved
    /\ Len(last.elements) = 5
    /\ last.size = 2
    /\ elements = SubSeq(last.elements, 1, 2)
    /\ Cardinality(aliases) = 2
    /\ Len(children) = 3


(***************************************************************************)
(* Claims about DataViews::Update                                          *)
(***************************************************************************)
\* C10: within one call of DataViews::Update a view is passed to Update at
\* most once per iteration over the dirty names, however many dirty names
\* lead to it and whether or not it was also newly added; a further
\* iteration, in which it can be passed again, is only begun when views were
\* added during the one before.
C10_OncePerDirtySet ==
    /\ \A view \in Views : Count(updated, view) <= 1
    /\ (dv_pc = "gather" /\ dv_i > 0) => views_to_add # <<>>

\* In the second iteration of a call with both names dirty, views 1, 2 and 3
\* have been passed to Update once each: view 2 is registered under both
\* names, view 3 twice under one, and one of the three was added during the
\* first iteration
C10_Witness ==
    /\ dv_i = 1
    /\ dirty_variables = Names
    /\ {1, 2, 3} \subseteq Range(updated)
    /\ name_view_map[<<"a", 2>>] = 1 /\ name_view_map[<<"b", 2>>] = 1
    /\ name_view_map[<<"b", 3>>] = 2
    /\ \A view \in {1, 2, 3} : Count(updated, view) = 1


\* C11: in each iteration of the update pass the views are updated in
\* ascending order of their element's depth: of two views updated in the
\* iteration, the one whose element depth is smaller is updated first.
C11_UpdatedByAscendingDepth ==
    \A j \in 1..Len(updated) : \A k \in 1..Len(updated) :
        GetElementDepth(updated[j]) < GetElementDepth(updated[k]) => j < k

\* View 2 was updated before views 1 and 3, whose elements lie deeper,
\* though view 1 comes first by address
C11_Witness ==
    /\ Len(updated) = 3
    /\ updated[1] = 2
    /\ GetElementDepth(2) < GetElementDepth(1)
    /\ {updated[2], updated[3]} = {1, 3}


\* C12: DataViews::Update always terminates: every call returns, having run
\* the body of its loop at least once and at most 10 times, also when views
\* keep being added by the views' Updates, and it begins a further
\* iteration only while views_to_add is not empty.
C12_UpdateTerminates ==
    /\ (dv_pc # "idle") ~> (dv_pc = "idle")
    /\ [](dv_i <= UpdateLimit)
    /\ [][(dv_pc # "idle" /\ dv_pc' = "idle") => dv_i' >= 1]_vars
    /\ [][(dv_pc = "update" /\ dv_pc' = "gather") => views_to_add # <<>>]_vars

\* A call returned after 10 iterations with a view still waiting to be added
C12_Witness ==
    /\ dv_pc = "idle"
    /\ dv_i = UpdateLimit
    /\ views_to_add # <<>>


\* The head of an iteration takes every added view over: into views, into
\* name_view_map once per occurrence of each of its names, into dirty_views
AddedTakenOver ==
    (dv_pc = "gather" /\ dv_pc' = "update") =>
        /\ views_to_add' = <<>>
        /\ \A view \in Range(views_to_add) :
            /\ view \in Range(views')
            /\ view \in Range(dirty_views')
            /\ \A name \in Range(GetVariableNameList(view)) :
                name_view_map'[<<name, view>>] = Count(GetVariableNameList(view), name)

\* A view leaves dirty_views only by being visited, and a valid one is then
\* passed to Update; the iteration ends only when all have been visited
DirtyAllVisited ==
    /\ (dv_pc = "update" /\ dirty_views' # dirty_views) =>
           \E k \in 1..Len(dirty_views) :
               /\ dirty_views' = Without(dirty_views, k)
               /\ ViewIsValid(live, dirty_views[k]) =>
                      /\ running' = <<dirty_views[k]>>
                      /\ updated' = Append(updated, dirty_views[k])
    /\ dv_i' # dv_i /\ dv_pc = "update" => dirty_views = <<>>

\* An added view waits in views_to_add until an iteration takes it over, and
\* a call returns with views waiting only after the 10th iteration
AddedNeverLost ==
    /\ views_to_add' # views_to_add =>
           \/ dv_pc = "gather" /\ dv_pc' = "update"
           \/ \E view \in Views : views_to_add' = Append(views_to_add, view)
    /\ (dv_pc # "idle" /\ dv_pc' = "idle" /\ views_to_add # <<>>) =>
           (dv_i' = UpdateLimit /\ views_to_add' = views_to_add)

\* C13: every view handed to DataViews::Add, between calls or from inside a
\* view's Update, is at the next iteration moved into views, registered in
\* name_view_map under each of its names and, if valid when visited, updated
\* in that iteration whatever the dirty names are; a view added during a
\* call is so handled before the call returns unless the 10 iterations are
\* used up, and then it stays in views_to_add for the next call.
C13_AddedViewsUpdatedNextIteration ==
    [][AddedTakenOver /\ DirtyAllVisited /\ AddedNeverLost]_vars

\* With no dirty name, a view added from inside an Update of the first
\* iteration has been updated in the second iteration of the same call
C13_Witness ==
    /\ dv_pc = "update"
    /\ dv_i = 1
    /\ dirty_variables = {}
    /\ Len(updated) = 1
    /\ updated[1] \in Range(views)


\* C14: a root name dirtied while a call of DataViews::Update runs is
\* drained within that call: when the call returns, no valid view registered
\* under such a name is left without an Update after the dirtying.
C14_DirtiedDrainedInPass ==
    dv_pc = "idle" => owed = {}


\* C15: Update returns true exactly when it changed something on the bound
\* element; for a data-for view: the last Update returned true exactly when
\* it created or destroyed children.
C15_ForResultTellsChange ==
    last.called => (last.result <=> last.log # <<>>)


C17_AdditiveBindsTighterThanComparison ==
    ex_pc = "executed" =>
        \A a \in SmallNumbers, b \in SmallNumbers, c \in SmallNumbers,
           rel \in ComparisonOperators, add \in AdditiveOperators :
            /\ ex_context.expression = ComparisonOfSum(a, rel, b, add, c) =>
                   ex_result = Evaluate(Join(<<a, rel, Parenthesized(Join(<<b, add, c>>))>>))
            /\ ex_context.expression = SumInComparison(a, add, b, rel, c) =>
                   ex_result = Evaluate(Join(<<Parenthesized(Join(<<a, add, b>>)), rel, c>>))


\* C18: logical-and binds tighter than logical-or, and equality tighter than
\* both: for all boolean operands `a || b && c` gives what `a || (b && c)`
\* gives, and `a && b == c` what `a && (b == c)` gives.
C18_AndBindsTighterThanOr ==
    ex_pc = "executed" =>
        \A a \in BooleanLiterals, b \in BooleanLiterals, c \in BooleanLiterals :
            /\ ex_context.expression = OrOfAnd(a, b, c) =>
                   ex_result = Evaluate(Join(<<a, <<"|", "|">>,
                                   Parenthesized(Join(<<b, <<"&", "&">>, c>>))>>))
            /\ ex_context.expression = AndOfEqual(a, b, c) =>
                   ex_result = Evaluate(Join(<<a, <<"&", "&">>,
                                   Parenthesized(Join(<<b, <<"=", "=">>, c>>))>>))


\* The number a literal token of NumberLiterals denotes
LiteralValue(token) ==
    CASE token = <<"1">> -> Float(1, 1)
      [] token = <<"2">> -> Float(2, 1)
      [] token = <<"5">> -> Float(5, 1)
      [] token = <<"0", ".", "5">> -> Float(1, 2)
      [] token = <<"-", "2">> -> Float(0 - 2, 1)

\* x op y in ordinary arithmetic
Apply(operator, x, y) ==
    CASE operator = <<"+">> -> FloatAdd(x, y)
      [] operator = <<"-">> -> FloatSubtract(x, y)
      [] operator = <<"*">> -> FloatMultiply(x, y)
      [] operator = <<"/">> -> FloatDivide(x, y)

\* x op1 y op2 z in ordinary arithmetic: * and / before + and -, operators
\* of equal precedence from left to right
Ordinary(x, op1, y, op2, z) ==
    IF op1 \in AdditiveOperators /\ op2 \in MultiplicativeOperators
    THEN Apply(op1, x, Apply(op2, y, z))
    ELSE Apply(op2, Apply(op1, x, y), z)

\* The literals an expression can have as its first (or last) operand: those
\* it starts (or ends) with, a parenthesis apart
OperandsAt(expression, first) ==
    {token \in NumberLiterals :
        \E skip \in 0..1 :
            /\ Len(token) + skip <= Len(expression)
            /\ token = IF first THEN SubSeq(expression, 1 + skip, Len(token) + skip)
                       ELSE SubSeq(expression, Len(expression) - skip - Len(token) + 1,
                                   Len(expression) - skip)}

\* The run compiled without error, ended without failure and left number in R
Gives(number) ==
    /\ ~ex_context.parse_error
    /\ ex_execution.success
    /\ ex_execution.R = Variant("float", number)
    /\ ex_result = FloatToString(number)

\* C19: expressions over numeric literals, + - * / and parentheses evaluate
\* like ordinary arithmetic: * and / bind tighter than + and -, operators of
\* equal precedence associate left to right, a parenthesized subexpression is
\* evaluated as a unit, and 5+(1+2) gives 8.  Where ordinary arithmetic
\* divides by zero it defines no value and nothing is claimed.
C19_ArithmeticAsOrdinary ==
    ex_pc = "executed" =>
        /\ ex_context.expression = <<"5", "+", "(", "1", "+", "2", ")">> =>
               ex_result = <<"8">>
        /\ \A x \in OperandsAt(ex_context.expression, TRUE),
              z \in OperandsAt(ex_context.expression, FALSE),
              y \in NumberLiterals,
              op1 \in ArithmeticOperators, op2 \in ArithmeticOperators :
            /\ ex_context.expression = Flat(x, op1, y, op2, z)
                   /\ Ordinary(LiteralValue(x), op1, LiteralValue(y), op2, LiteralValue(z))[2] # 0
               => Gives(Ordinary(LiteralValue(x), op1, LiteralValue(y), op2, LiteralValue(z)))
            /\ ex_context.expression = RightGrouped(x, op1, y, op2, z)
                   /\ Apply(op1, LiteralValue(x), Apply(op2, LiteralValue(y), LiteralValue(z)))[2] # 0
               => Gives(Apply(op1, LiteralValue(x), Apply(op2, LiteralValue(y), LiteralValue(z))))
            /\ ex_context.expression = LeftGrouped(x, op1, y, op2, z)
                   /\ Apply(op2, Apply(op1, LiteralValue(x), LiteralValue(y)), LiteralValue(z))[2] # 0
               => Gives(Apply(op2, Apply(op1, LiteralValue(x), LiteralValue(y)), LiteralValue(z)))

\* 1/2/5 was compiled and run and gave 0.1, not the 2.5 of 1/(2/5)
C19_Witness ==
    /\ ex_pc = "executed"
    /\ ex_context.expression = <<"1", "/", "2", "/", "5">>
    /\ ex_result = <<"0", ".", "1">>


\* What is in R after the expression is compiled and run on its own
ValueOfExpression(expression) == Execution(Parse(ParserContext(expression))).R

\* C20: for every compiled expression `c ? a : b`, execution yields the value
\* of a when c is truthy and the value of b otherwise, also when a or b
\* contain binary operators, nested ternaries or transform calls.
C20_TernarySelectsBranch ==
    ex_pc = "executed" =>
        \A c \in Conditions, a \in Branches, b \in Branches :
            ex_context.expression = TernaryOf(c, a, b) =>
                /\ ~ex_context.parse_error
                /\ ex_execution.success
                /\ ex_execution.R = IF Get(ValueOfExpression(c), "bool", FALSE)
                                    THEN ValueOfExpression(a)
                                    ELSE ValueOfExpression(b)
                /\ ex_result = Get(ex_execution.R, "String", <<>>)

\* 1==1 ? 'yes' : 'no' was compiled and run and gave 'yes'
C20_Witness ==
    /\ ex_pc = "executed"
    /\ ex_context.expression = TernaryOf(<<"1", "=", "=", "1">>,
                                         Quoted(<<"y", "e", "s">>), Quoted(<<"n", "o">>))
    /\ ex_result = <<"y", "e", "s">>


\* C21: Add, Equal and NotEqual take string semantics exactly when at least
\* one of L and R holds a string when the instruction executes (Add
\* concatenates the string forms, Equal and NotEqual compare them) and
\* otherwise work on both operands converted to float; the choice is made
\* per executed instruction, and 'hello' + ' ' + 'world' gives 'hello world'.
C21_StringWhenAnyOperandString ==
    /\ [][ex_pc = "running" /\ ex_ip' = ex_ip + 1
              /\ Current.instruction \in {"Add", "Equal", "NotEqual"}
          => ex_execution'.R =
                IF "String" \in {ex_execution.L.type, ex_execution.R.type}
                THEN CASE Current.instruction = "Add" ->
                            Variant("String", Get(ex_execution.L, "String", <<>>)
                                              \o Get(ex_execution.R, "String", <<>>))
                       [] Current.instruction = "Equal" ->
                            Variant("bool", Get(ex_execution.L, "String", <<>>)
                                            = Get(ex_execution.R, "String", <<>>))
                       [] Current.instruction = "NotEqual" ->
                            Variant("bool", Get(ex_execution.L, "String", <<>>)
                                            # Get(ex_execution.R, "String", <<>>))
                ELSE CASE Current.instruction = "Add" ->
                            Variant("float", FloatAdd(Get(ex_execution.L, "float", Float(0, 1)),
                                                      Get(ex_execution.R, "float", Float(0, 1))))
                       [] Current.instruction = "Equal" ->
                            Variant("bool", FloatEqual(Get(ex_execution.L, "float", Float(0, 1)),
                                                       Get(ex_execution.R, "float", Float(0, 1))))
                       [] Current.instruction = "NotEqual" ->
                            Variant("bool", ~FloatEqual(Get(ex_execution.L, "float", Float(0, 1)),
                                                        Get(ex_execution.R, "float", Float(0, 1))))]_vars
    /\ [](ex_pc = "executed" /\ ex_context.expression = HelloWorld
              => ex_result = <<"h", "e", "l", "l", "o", " ", "w", "o", "r", "l", "d">>)

\* 1 + 2 + 'a' was run: the first Add worked on floats, the second on strings
C21_Witness ==
    /\ ex_pc = "executed"
    /\ ex_context.expression = Join(<<<<"1">>, <<"+">>, <<"2">>, <<"+">>, Quoted(<<"a">>)>>)
    /\ ex_result = <<"3", "a">>


\* The characters in the order of their codes
CharacterOrder ==
    <<" ", "'", "(", ")", "*", "+", ",", "-", ".", "/",
      "0", "1", "2", "3", "4", "5", "6", "7", "8", "9",
      "A", "B", "C", "D", "E", "F", "G", "H", "I", "J", "K", "L", "M",
      "N", "O", "P", "Q", "R", "S", "T", "U", "V", "W", "X", "Y", "Z",
      "a", "b", "c", "d", "e", "f", "g", "h", "i", "j", "k", "l", "m",
      "n", "o", "p", "q", "r", "s", "t", "u", "v", "w", "x", "y", "z">>

CharacterCode(c) == CHOOSE k \in 1..Len(CharacterOrder) : CharacterOrder[k] = c

\* s < t in lexical order
RECURSIVE LexicalLess(_, _)
LexicalLess(s, t) ==
    IF t = <<>> THEN FALSE
    ELSE IF s = <<>> THEN TRUE
    ELSE IF s[1] = t[1] THEN LexicalLess(Tail(s), Tail(t))
    ELSE CharacterCode(s[1]) < CharacterCode(t[1])

\* l rel r in lexical order, for the instruction of rel
LexicalComparison(instruction, l, r) ==
    CASE instruction = "Less" -> LexicalLess(l, r)
      [] instruction = "LessEq" -> ~LexicalLess(r, l)
      [] instruction = "Greater" -> LexicalLess(r, l)
      [] instruction = "GreaterEq" -> ~LexicalLess(l, r)

\* C22: when either operand of a relational operator (<, <=, >, >=) is
\* textual when the instruction executes, the result is the lexical
\* comparison of the two operands' strings, not a comparison of floats.
C22_TextualRelationalIsLexical ==
    [][ex_pc = "running" /\ ex_ip' = ex_ip + 1
            /\ Current.instruction \in {"Less", "LessEq", "Greater", "GreaterEq"}
            /\ "String" \in {ex_execution.L.type, ex_execution.R.type}
        => ex_execution'.R =
              Variant("bool", LexicalComparison(Current.instruction,
                                                Get(ex_execution.L, "String", <<>>),
                                                Get(ex_execution.R, "String", <<>>)))]_vars


\* The values of the expressions of a list, in order
ValuesOf(expressions) ==
    [k \in 1..Len(expressions) |-> ValueOfExpression(expressions[k])]

\* The loop of Run is about to execute the Function instruction of name
AtFunction(name) ==
    /\ ex_pc = "running"
    /\ ex_ip < Len(ex_context.program)
    /\ Current.instruction = "Function"
    /\ Current.data = Variant("String", name)

\* C23: for `expr | name(a1, ..., an)`, when the Function instruction of name
\* executes R holds the value of expr and the argument list holds the values
\* of a1, ..., an in source order; `expr | name` and `expr | name()` give an
\* empty argument list; the call of TestParser passes 'hello world' with the
\* arguments 'yes' and 18.
C23_CallReceivesValueAndArguments ==
    /\ \A expr \in Piped :
        /\ \A arguments \in ArgumentLists :
              ex_context.expression = CallOf(expr, <<"u", "p">>, arguments)
                  /\ AtFunction(<<"u", "p">>)
              => /\ ex_execution.R = ValueOfExpression(expr)
                 /\ ex_execution.arguments = ValuesOf(arguments)
        /\ ex_context.expression = BareCallOf(expr, <<"u", "p">>)
               /\ AtFunction(<<"u", "p">>)
           => /\ ex_execution.R = ValueOfExpression(expr)
              /\ ex_execution.arguments = <<>>
    /\ ex_context.expression = TestParserCall
           /\ AtFunction(<<"u", "p", "p", "e", "r", "c", "a", "s", "e">>)
       => /\ ex_execution.R = Variant("String", <<"h", "e", "l", "l", "o", " ", "w", "o", "r", "l", "d">>)
          /\ ex_execution.arguments = <<Variant("String", <<"y", "e", "s">>),
                                        Variant("float", Float(18, 1))>>
    /\ ex_pc = "executed" /\ ex_context.expression \in TransformCalls
       => ~ex_context.parse_error /\ ex_execution.success

\* The call of TestParser is about to execute its Function instruction
C23_Witness ==
    /\ ex_context.expression = TestParserCall
    /\ AtFunction(<<"u", "p", "p", "e", "r", "c", "a", "s", "e">>)
    /\ Len(ex_execution.arguments) = 2


\* C24: Parse() ends with parse_error set for every input that is not
\* completely consumed as one well-formed expression: a trailing unexpected
\* character, an unmatched '(' or ')' or quote, a ternary without ':', a
\* missing operand (the empty string too), an unterminated argument list, a
\* single '=' or '&'; and it ends without parse_error for the well-formed
\* expressions those inputs were made from
C24_MalformedSetsParseError ==
    ex_pc # "constructed" =>
        /\ ex_context.expression \in MalformedExpressions => ex_context.parse_error
        /\ ex_context.expression \in WellFormed => ~ex_context.parse_error

\* 1+2) was parsed: the expression 1+2 is consumed, the ')' is left over
C24_Witness ==
    /\ ex_pc = "parsed"
    /\ ex_context.expression = <<"1", "+", "2", ")">>
    /\ ex_context.expression \in MalformedExpressions
    /\ ~ex_context.reached_end
    /\ ex_context.parse_error


\* C25: once compiling an expression has failed, every later evaluation of
\* it yields the empty value and executes no instruction of the partially
\* emitted program, however often it is evaluated.
C25_FailedCompileYieldsEmpty ==
    /\ [](ex_pc = "executed" /\ ex_context.parse_error => ex_result = <<>>)
    /\ [][ex_pc # "constructed" /\ ex_context.parse_error
              => /\ ex_ip' = ex_ip
                 /\ ex_execution' = ex_execution
                 /\ ex_pc' # "running"]_vars

\* An expression that failed to compile after at least one instruction was
\* emitted has been evaluated as often as evaluations are followed
C25_Witness ==
    /\ ex_pc = "executed"
    /\ ex_context.parse_error
    /\ ex_context.program # <<>>
    /\ ex_count = MaxEvaluations


\* The transforms ExecutionContext::Execute knows: it looks none up
RegisteredTransforms == {}

\* The program holds a Function instruction that names no known transform
CallsUnknownTransform(program) ==
    \E k \in 1..Len(program) :
        /\ program[k].instruction = "Function"
        /\ Get(program[k].data, "String", <<>>) \notin RegisteredTransforms

\* C26: when a run fails at some instruction (stack underflow, invalid
\* register, unknown transform name) the run is aborted and the expression
\* yields the value of its last successful evaluation if there was one,
\* otherwise an empty value.  An expression that names an unknown transform
\* fails in every run, so it has no successful evaluation and yields the
\* empty value.
C26_FailedRunYieldsLastValue ==
    /\ ex_pc = "executed" /\ ~ex_context.parse_error /\ ~ex_execution.success
       => ex_result = <<>>
    /\ ex_pc = "executed" /\ ~ex_context.parse_error
           /\ CallsUnknownTransform(ex_context.program)
       => /\ ~ex_execution.success
          /\ ex_result = <<>>


\* C27: executing a Variable instruction sets R to the data model's current
\* value at the address the instruction names, so the result of an
\* expression changes when the variable's value changes between two
\* executions of the same program.
C27_VariableReadsModel ==
    [][ex_pc = "running" /\ ex_ip' = ex_ip + 1 /\ Current.instruction = "Variable"
        => ex_execution'.R =
              ModelGetValue(variables, data, Get(Current.data, "String", <<>>)).result]_vars


\* toupper
ToUpper(c) ==
    IF CharacterCode(c) >= CharacterCode("a") /\ CharacterCode(c) <= CharacterCode("z")
    THEN CharacterOrder[CharacterCode(c) - CharacterCode("a") + CharacterCode("A")]
    ELSE c

\* What the transform uppercase of TestParser returns for a value
Uppercase(value) ==
    Variant("String", [k \in 1..Len(Get(value, "String", <<>>)) |->
                          ToUpper(Get(value, "String", <<>>)[k])])

\* C28: executing a Function instruction calls the transform it names with R
\* as implicit argument plus the collected argument list, replaces R with
\* the transform's result, and leaves the argument list empty; for the
\* transform uppercase: R becomes the upper-case form of what it held.
C28_FunctionCallsTransform ==
    [][ex_pc = "running" /\ ex_ip' = ex_ip + 1 /\ Current.instruction = "Function"
        => /\ ex_execution'.arguments = <<>>
           /\ Current.data = Variant("String", <<"u", "p", "p", "e", "r", "c", "a", "s", "e">>)
              => ex_execution'.R = Uppercase(ex_execution.R)]_vars

\* The kind of definition each of the three binding calls asks for
ShapeOf(kind) ==
    CASE kind = "BindScalar" -> "Scalar"
      [] kind = "BindStruct" -> "Struct"
      [] kind = "BindArray" -> "Array"

\* C29: a bind under a name that is already bound returns false and leaves
\* the bindings, so the definition and the host location bound to the name,
\* as they were; a bind whose type has no definition in the register, or a
\* definition of another kind than the call asks for, returns false and adds
\* no binding
C29_FailedBindAddsNothing ==
    [][LET name == op'.address_str
           T == op'.variable.definition
       IN /\ name \in DOMAIN variables =>
                /\ ~op'.ok
                /\ variables' = variables
                /\ variables'[name].definition = variables[name].definition
                /\ variables'[name].ptr = variables[name].ptr
          /\ T \notin DOMAIN type_register' =>
                ~op'.ok /\ variables' = variables
          /\ (T \in DOMAIN type_register' /\ type_register'[T].type # ShapeOf(op'.kind)) =>
                ~op'.ok /\ variables' = variables]_vars

\* BindStruct("d", &other_data) was called while d is bound to data: it
\* failed and d is still bound to data
C29_Witness ==
    /\ op.kind = "BindStruct"
    /\ op.address_str = <<"d">>
    /\ op.variable = MakeVariable("SmartData", Ptr("other_data", <<>>))
    /\ ~op.ok
    /\ variables[<<"d">>] = MakeVariable("SmartData", Ptr("data", <<>>))

\* What navigating the first k entries of the address gives, one GetChild
\* per entry after the root's: the root, its child, that child's child, ...;
\* the empty Variable once one of them is empty
RECURSIVE ChildAt(_, _, _, _)
ChildAt(vs, host, address, k) ==
    IF k = 1
    THEN IF address[1].name \in DOMAIN vs THEN vs[address[1].name] ELSE NullVariable
    ELSE IF IsValid(ChildAt(vs, host, address, k - 1))
    THEN VariableGetChild(host, ChildAt(vs, host, address, k - 1), address[k])
    ELSE NullVariable

\* Every step of the navigation of the address succeeded
EveryStepSucceeded(vs, host, address) ==
    /\ address # <<>>
    /\ address[1].name # <<>>
    /\ address[1].name \in DOMAIN vs
    /\ \A k \in 2..Len(address) : IsValid(ChildAt(vs, host, address, k))

\* C30: the Variable that GetVariable resolved for a call of GetValue or
\* SetValue is valid only if the address is not empty, its first entry names
\* a bound root and every GetChild after it succeeded, and then it is what
\* the last GetChild gave; if one step fails it is the empty Variable
C30_ValidOnlyIfEveryStepSucceeded ==
    op.kind \in {"GetValue", "SetValue"} =>
        /\ IsValid(op.variable) =>
                EveryStepSucceeded(variables, op.before, ParseAddress(op.address_str))
        /\ EveryStepSucceeded(variables, op.before, ParseAddress(op.address_str)) =>
                op.variable = ChildAt(variables, op.before, ParseAddress(op.address_str),
                                      Len(ParseAddress(op.address_str)))
        /\ ~EveryStepSucceeded(variables, op.before, ParseAddress(op.address_str)) =>
                op.variable = NullVariable

\* GetValue was called with d.v.i: the root d is bound and its member v is
\* found, the scalar d.v has no child i, and the empty Variable was resolved
C30_Witness ==
    /\ op.kind = "GetValue"
    /\ op.address_str = A_vi
    /\ IsValid(ChildAt(variables, op.before, ParseAddress(A_vi), 2))
    /\ ~IsValid(ChildAt(variables, op.before, ParseAddress(A_vi), 3))
    /\ op.variable = NullVariable

\* C31: registering a member with a handle whose definition is not the
\* registered definition of the member's declared type fails: the struct
\* definition gains no member under that name, and the name does not resolve
\* afterwards unless it did before
C31_MismatchedMemberNotRegistered ==
    [][op'.kind = "RegisterMember" /\ ~op'.ok
        => /\ DOMAIN type_register'["Other"].members = DOMAIN type_register["Other"].members
           /\ op'.address_str \notin DOMAIN type_register["Other"].members
              => ~IsValid(StructGetChild(type_register'["Other"], Ptr("other", <<>>),
                                         NameEntry(op'.address_str)))]_vars

\* SetValue ran in this step and returned
SetValueRan == ct_call'.kind = "SetValue" /\ status' = "running"

\* The value of the bound scalar's type that new_value converts to
ConvertedFor(variable, new_value) ==
    GetInto(new_value, ScalarTypeOf(variable), At(data, variable.ptr.path))

\* The host field the variable points to holds new_value after the step
HoldsAfter(variable, new_value) ==
    /\ TypeOf(variable) = "Scalar"
    /\ ConvertedFor(variable, new_value).ok
    /\ At(data', variable.ptr.path) = ConvertedFor(variable, new_value).dest

\* C32: SetValue(v) with a live element, a data model and a resolvable
\* address writes v to the bound variable and dirties exactly the root name
\* address.front().name; a call that writes nothing (v equal to the cached
\* value, unresolvable address, destroyed element, missing model) dirties no
\* name and leaves the cached value and the host data unchanged
C32_WriteBackDirtiesRoot ==
    [][SetValueRan =>
        IF ct_element /\ ct_model /\ IsValid(BoundVariable)
           /\ ct_value # ct_call'.new_value
        THEN /\ HoldsAfter(BoundVariable, ct_call'.new_value)
             /\ model_dirty' = model_dirty \cup {ct_address[1].name}
        ELSE /\ model_dirty' = model_dirty
             /\ ct_value' = ct_value
             /\ data' = data]_vars

\* C35: whatever write-backs and host assignments came before, SetValue(v)
\* with a live element, a data model, a resolvable scalar address and a
\* convertible v leaves the bound host field equal to v
C35_WriteBackReachesHost ==
    [][SetValueRan /\ ct_element /\ ct_model /\ IsValid(BoundVariable)
        => (TypeOf(BoundVariable) = "Scalar"
            /\ ConvertedFor(BoundVariable, ct_call'.new_value).ok
            => HoldsAfter(BoundVariable, ct_call'.new_value))]_vars

\* C36: the assertion at the head of SetValue, !address.empty(), holds on
\* every call, also for a controller whose variable name did not resolve
C36_AddressAssertionHolds ==
    ct_call.kind = "SetValue" => ct_call.asserted

\* Whether an element with this local display property is displayed
Displayed(display) == display # "none"

\* C33: DataViewIf::Update changes nothing but the element's local display
\* property, which it removes when the value is true and sets to none when
\* false; after an Update that read the value the element is visible iff the
\* value is true; a repeated Update with the same value changes nothing and
\* returns false
C33_IfTogglesDisplay ==
    [][if_last'.kind = "Update" /\ data' = data /\ if_element' = if_element =>
        /\ if_display' \in {if_display, IF if_last'.value THEN "absent" ELSE "none"}
        /\ if_last'.ok => (Displayed(if_display') <=> if_last'.value)
        /\ (if_last.kind = "Update" /\ if_last.ok /\ if_last'.ok
               /\ if_last.value = if_last'.value)
           => if_display' = if_display /\ ~if_last'.result]_vars

\* The views that exist: those one of the lists views and views_to_remove owns
Owned == Range(views) \cup Range(views_to_remove)

\* C37: every DataView pointer in name_view_map, and every pointer of the
\* dirty list of the iteration that runs (the views still to visit, the one
\* whose Update runs, the ones visited), refers to a view that views or
\* views_to_remove still owns
C37_ViewPointersOwned ==
    /\ \A e \in DOMAIN name_view_map : name_view_map[e] > 0 => e[2] \in Owned
    /\ Range(dirty_views) \subseteq Owned
    /\ Range(running) \subseteq Owned
    /\ dv_pc = "update" => Range(updated) \subseteq Owned

\* While a view's Update runs inside a pass, a view that is registered under
\* a name and still waits in the dirty list has been moved to views_to_remove
C37_Witness ==
    /\ dv_pc = "update"
    /\ running # <<>>
    /\ \E view \in Range(views_to_remove) :
        /\ view \in Range(dirty_views)
        /\ \E name \in Names : name_view_map[<<name, view>>] > 0

\* The program holds the instruction Literal 'text'
HoldsLiteral(program, text) ==
    \E k \in 1..Len(program) :
        program[k] = InstructionData("Literal", Variant("String", text))

\* C38: Run executes the instructions strictly in index order, each at most
\* once, without jumps: every step of a run executes the instruction after
\* the one executed before, no step follows a failed instruction, and a run
\* that succeeds has executed them all; so both branches of a ternary and
\* both operands of && and || are executed whatever the condition is
C38_RunIsLinear ==
    /\ [][ex_pc = "running" /\ ex_pc' = "running" =>
            /\ ex_execution.success
            /\ ex_ip' = ex_ip + 1
            /\ ex_ip' <= Len(ex_context.program)
            /\ ex_execution' = Execute(ex_execution, ex_context.program[ex_ip + 1].instruction,
                                       ex_context.program[ex_ip + 1].data)]_vars
    /\ [][ex_pc = "parsed" /\ ex_pc' = "running" => ex_ip' = 0]_vars
    /\ [](ex_pc = "executed" /\ ~ex_context.parse_error /\ ex_execution.success
            => ex_ip = Len(ex_context.program))
    /\ [](ex_pc # "constructed" /\ ex_context.expression \in BothSides
            => /\ ~ex_context.parse_error
               /\ HoldsLiteral(ex_context.program, <<"b">>)
               /\ Look([ex_context EXCEPT !.index = 2]) = "?"
                  => HoldsLiteral(ex_context.program, <<"a">>))

\* 1 ? 'a' : 'b' has run to its end: every instruction was executed, the
\* Literal 'b' of the branch not taken too, and the result is a
C38_Witness ==
    /\ ex_pc = "executed"
    /\ ex_context.expression = Join(<<<<"1">>, <<"?">>, Quoted(<<"a">>), <<":">>, Quoted(<<"b">>)>>)
    /\ HoldsLiteral(ex_context.program, <<"b">>)
    /\ ex_ip = Len(ex_context.program)
    /\ ex_result = <<"a">>

(***************************************************************************)
(* Claims about the balance of Push, Pop and Arguments                     *)
(***************************************************************************)
\* The instruction the run is about to execute finds what it needs: a Pop a
\* non-empty stack and a register, Arguments an empty argument list and
\* enough of the stack
HasOperands(execution, instruction, payload) ==
    /\ instruction = "Pop" =>
          /\ execution.stack # <<>>
          /\ Get(payload, "int", 0 - 1) \in {RegisterIndex(r) : r \in {"R", "L", "C"}}
    /\ instruction = "Arguments" =>
          /\ execution.arguments = <<>>
          /\ Len(execution.stack) >= Get(payload, "int", 0 - 1)

RECURSIVE ClosingQuote(_, _)
ClosingQuote(body, i) ==
    IF i > Len(body) THEN 0
    ELSE IF body[i] = "\\" THEN ClosingQuote(body, i + 2)
    ELSE IF body[i] = "'" THEN i
    ELSE ClosingQuote(body, i + 1)

\* What Parse made of an input that is one literal: refused, or the one
\* instruction Literal with the characters between the quotes
LiteralParsed(context, body, closing) ==
    /\ closing = 0 => context.parse_error
    /\ closing = Len(body) /\ closing > 0 =>
          /\ ~context.parse_error
          /\ context.program =
                <<InstructionData("Literal",
                                  Variant("String", SubSeq(body, 1, closing - 1)))>>
    /\ closing > 0 /\ closing < Len(body) => context.parse_error

\* C39 (as claimed): in a single-quoted literal a backslash escapes exactly
\* the character after it: an escaped quote does not end the literal, a
\* quote after an escaped backslash does, and a literal without a closing
\* quote is a compile error.
C39_BackslashEscapesNext ==
    (ex_pc # "constructed" /\ ex_context.expression \in LiteralInputs) =>
        LiteralParsed(ex_context, Tail(ex_context.expression),
                      ClosingQuote(Tail(ex_context.expression), 1))

(***************************************************************************)
(* Claims about DataViewText                                               *)
(***************************************************************************)
\* s from s[i] on with each well-terminated group, read from the left,
\* replaced by its value: values[k] goes where the k-th group stands
RECURSIVE Replaced(_, _, _, _)
Replaced(s, i, values, k) ==
    IF i > Len(s) THEN <<>>
    ELSE IF GroupAt(s, i)
         THEN values[k] \o Replaced(s, GroupEnd(s, i + 2) + 2, values, k + 1)
         ELSE <<s[i]>> \o Replaced(s, i + 1, values, k)

\* Whether `{{` stands in s at or after s[i] with no `}}` after it
RECURSIVE OpenGroup(_, _)
OpenGroup(s, i) ==
    /\ i + 1 <= Len(s)
    /\ \/ s[i] = "{" /\ s[i + 1] = "{" /\ GroupEnd(s, i + 2) = 0
       \/ OpenGroup(s, i + 1)

\* C40 (as claimed): for every text with one or more well-terminated groups
\* BuildText returns the source text with each group replaced, in order, by
\* the value its entry's last successful read gave, empty before the first,
\* and the literal text kept as it is.
C40_BuildTextReplacesGroups ==
    (tx_pc = "constructed" /\ NumGroups(tx_in_text, 1) >= 1) =>
        BuildText(tx_text, tx_data_entries) = Replaced(tx_in_text, 1, tx_read, 1)

\* C40 (amended): the same for every text with one or more groups in which
\* every `{{` is followed by a `}}`.
C40_BuildTextReplacesTerminated ==
    (tx_pc = "constructed" /\ NumGroups(tx_in_text, 1) >= 1
                           /\ ~OpenGroup(tx_in_text, 1)) =>
        BuildText(tx_text, tx_data_entries) = Replaced(tx_in_text, 1, tx_read, 1)

\* A text with literal text before and after a group whose read gave x
C40_Witness ==
    /\ tx_pc = "constructed"
    /\ tx_in_text = <<"a", "{", "{", "a", "}", "}", "a">>
    /\ tx_read = <<(<<"x">>)>>
    /\ BuildText(tx_text, tx_data_entries) = <<"a", "x", "a">>

====
